---- MODULE Spec2Model ----
(***************************************************************************)
(* A state-machine model of the single-pass Lox bytecode compiler          *)
(* (src/clox/compiler.c, src/clox/chunk.c).                                *)
(*                                                                         *)
(* The C program is a recursive-descent / Pratt parser.  Its call stack is *)
(* the variable `frames`: one frame per active grammar function, holding   *)
(* the function's name, its position (pc) and its C local variables.  One  *)
(* action per grammar function; a step of an action runs the function from *)
(* its current position up to its next recursive call or its return.       *)
(* Functions that do not recurse into the grammar (advance, consume,       *)
(* emitByte, patchJump, resolveLocal, ...) are operators on the "world"    *)
(* record w, which bundles the C globals (parser, current, currentClass),  *)
(* the scanner position and stderr.                                        *)
(*                                                                         *)
(* C arrays are 0-based, TLA+ sequences 1-based: slot i of an array a is   *)
(* a[i + 1].                                                               *)
(***************************************************************************)
EXTENDS Integers, Sequences, FiniteSets, TLC

VARIABLES
  source,          \* the source being compiled, a sequence of words
  scanPos,         \* the scanner's position in source
  parser,          \* Parser parser;
  compilers,       \* the chain current -> enclosing -> ...; current is the last
  classCompilers,  \* the chain currentClass -> enclosing -> ...
  stderr,          \* the diagnostics printed so far
  frames,          \* the C call stack of grammar functions
  retval,          \* the value returned by the last argumentList()
  result           \* what compile() returned, once it has

vars == <<source, scanPos, parser, compilers, classCompilers, stderr, frames,
          retval, result>>

-----------------------------------------------------------------------------
(* Program constants *)

UINT8_COUNT == 256
UINT8_MAX == 255
UINT16_MAX == 65535

\* typedef enum { PREC_NONE, ... } Precedence;
PREC ==
  [NONE |-> 0, ASSIGNMENT |-> 1, OR |-> 2, AND |-> 3, EQUALITY |-> 4,
   COMPARISON |-> 5, TERM |-> 6, FACTOR |-> 7, UNARY |-> 8, CALL |-> 9,
   PRIMARY |-> 10]

\* The opcodes of chunk.h, in the order of the instruction table.
OP ==
  [OP_CONSTANT |-> 0, OP_NIL |-> 1, OP_TRUE |-> 2, OP_FALSE |-> 3, OP_POP |-> 4,
   OP_GET_LOCAL |-> 5, OP_SET_LOCAL |-> 6, OP_GET_GLOBAL |-> 7, OP_DEFINE_GLOBAL |-> 8,
   OP_SET_GLOBAL |-> 9, OP_GET_UPVALUE |-> 10, OP_SET_UPVALUE |-> 11,
   OP_GET_PROPERTY |-> 12, OP_SET_PROPERTY |-> 13, OP_GET_SUPER |-> 14, OP_EQUAL |-> 15,
   OP_GREATER |-> 16, OP_LESS |-> 17, OP_ADD |-> 18, OP_SUBSTRACT |-> 19,
   OP_MULTIPLY |-> 20, OP_DIVIDE |-> 21, OP_NOT |-> 22, OP_NEGATE |-> 23, OP_PRINT |-> 24,
   OP_JUMP |-> 25, OP_JUMP_IF_FALSE |-> 26, OP_LOOP |-> 27, OP_CALL |-> 28,
   OP_INVOKE |-> 29, OP_SUPER_INVOKE |-> 30, OP_CLOSURE |-> 31, OP_CLOSE_UPVALUE |-> 32,
   OP_RETURN |-> 33, OP_CLASS |-> 34, OP_INHERIT |-> 35, OP_METHOD |-> 36]

\* ParseRule rules[]: token type -> {prefix, infix, precedence}.
Rule(prefix, infix, precedence) ==
  [prefix |-> prefix, infix |-> infix, precedence |-> precedence]

rules ==
  "LEFT_PAREN" :> Rule("grouping", "call", PREC.CALL) @@
  "RIGHT_PAREN" :> Rule("NULL", "NULL", PREC.NONE) @@
  "LEFT_BRACE" :> Rule("NULL", "NULL", PREC.NONE) @@
  "RIGHT_BRACE" :> Rule("NULL", "NULL", PREC.NONE) @@
  "COMMA" :> Rule("NULL", "NULL", PREC.NONE) @@
  "DOT" :> Rule("NULL", "dot", PREC.CALL) @@
  "MINUS" :> Rule("unary", "binary", PREC.TERM) @@
  "PLUS" :> Rule("NULL", "binary", PREC.TERM) @@
  "SEMICOLON" :> Rule("NULL", "NULL", PREC.NONE) @@
  "SLASH" :> Rule("NULL", "binary", PREC.FACTOR) @@
  "STAR" :> Rule("NULL", "binary", PREC.FACTOR) @@
  "BANG" :> Rule("unary", "NULL", PREC.NONE) @@
  "BANG_EQUAL" :> Rule("NULL", "binary", PREC.EQUALITY) @@
  "EQUAL" :> Rule("NULL", "NULL", PREC.NONE) @@
  "EQUAL_EQUAL" :> Rule("NULL", "binary", PREC.EQUALITY) @@
  "GREATER" :> Rule("NULL", "binary", PREC.COMPARISON) @@
  "GREATER_EQUAL" :> Rule("NULL", "binary", PREC.COMPARISON) @@
  "LESS" :> Rule("NULL", "binary", PREC.COMPARISON) @@
  "LESS_EQUAL" :> Rule("NULL", "binary", PREC.COMPARISON) @@
  "IDENTIFIER" :> Rule("variable", "NULL", PREC.NONE) @@
  "STRING" :> Rule("string", "NULL", PREC.NONE) @@
  "NUMBER" :> Rule("number", "NULL", PREC.NONE) @@
  "AND" :> Rule("NULL", "and_", PREC.AND) @@
  "CLASS" :> Rule("NULL", "NULL", PREC.NONE) @@
  "ELSE" :> Rule("NULL", "NULL", PREC.NONE) @@
  "FALSE" :> Rule("literal", "NULL", PREC.NONE) @@
  "FOR" :> Rule("NULL", "NULL", PREC.NONE) @@
  "FUN" :> Rule("NULL", "NULL", PREC.NONE) @@
  "IF" :> Rule("NULL", "NULL", PREC.NONE) @@
  "NIL" :> Rule("literal", "NULL", PREC.NONE) @@
  "OR" :> Rule("NULL", "or_", PREC.OR) @@
  "PRINT" :> Rule("NULL", "NULL", PREC.NONE) @@
  "RETURN" :> Rule("NULL", "NULL", PREC.NONE) @@
  "SUPER" :> Rule("super_", "NULL", PREC.NONE) @@
  "THIS" :> Rule("this_", "NULL", PREC.NONE) @@
  "TRUE" :> Rule("literal", "NULL", PREC.NONE) @@
  "VAR" :> Rule("NULL", "NULL", PREC.NONE) @@
  "WHILE" :> Rule("NULL", "NULL", PREC.NONE) @@
  "ERROR" :> Rule("NULL", "NULL", PREC.NONE) @@
  "EOF" :> Rule("NULL", "NULL", PREC.NONE)

getRule(type) == rules[type]

-----------------------------------------------------------------------------
(* Tokens.  A token is its type, its lexeme (the C start/length pair) and   *)
(* its line.                                                                *)

Token(type, start, line) == [type |-> type, start |-> start, line |-> line]

\* A token built by syntheticToken() or by initCompiler(): only start and
\* length are set; type and line are never read.
syntheticToken(text) == Token("<unset>", text, 0)

\* The world: the C globals the helpers read and write.  The scanner's state
\* is the source, a sequence of words, and the position of its next word.
World ==
  [source |-> source, scanPos |-> scanPos, parser |-> parser,
   compilers |-> compilers, classCompilers |-> classCompilers, stderr |-> stderr]

\* The place of parser.current in the source: the scanner stands right
\* after the token it gave last, and at the end of the source once it gave EOF.
position(w) ==
  IF w.parser.current.type = "EOF" THEN Len(w.source) + 1 ELSE w.scanPos - 1

Pos == position(World)

TokenType(word) ==
  CASE word = "(" -> "LEFT_PAREN"   [] word = ")" -> "RIGHT_PAREN"
    [] word = "{" -> "LEFT_BRACE"   [] word = "}" -> "RIGHT_BRACE"
    [] word = "," -> "COMMA"        [] word = "." -> "DOT"
    [] word = "-" -> "MINUS"        [] word = "+" -> "PLUS"
    [] word = ";" -> "SEMICOLON"    [] word = "/" -> "SLASH"
    [] word = "*" -> "STAR"         [] word = "!" -> "BANG"
    [] word = "!=" -> "BANG_EQUAL"  [] word = "=" -> "EQUAL"
    [] word = "==" -> "EQUAL_EQUAL" [] word = ">" -> "GREATER"
    [] word = ">=" -> "GREATER_EQUAL" [] word = "<" -> "LESS"
    [] word = "<=" -> "LESS_EQUAL"  [] word = "and" -> "AND"
    [] word = "class" -> "CLASS"    [] word = "else" -> "ELSE"
    [] word = "false" -> "FALSE"    [] word = "for" -> "FOR"
    [] word = "fun" -> "FUN"        [] word = "if" -> "IF"
    [] word = "nil" -> "NIL"        [] word = "or" -> "OR"
    [] word = "print" -> "PRINT"    [] word = "return" -> "RETURN"
    [] word = "super" -> "SUPER"    [] word = "this" -> "THIS"
    [] word = "true" -> "TRUE"      [] word = "var" -> "VAR"
    [] word = "while" -> "WHILE"    [] word = "@" -> "ERROR"
    [] word \in {ToString(n) : n \in 0 .. 9} -> "NUMBER"
    [] word \in {"'s'", "'t'", "''"} -> "STRING"
    [] OTHER -> "IDENTIFIER"

\* The scanner skips the word "\n", which ends a line.
RECURSIVE skipWhitespace(_, _)
skipWhitespace(text, pos) ==
  IF pos <= Len(text) /\ text[pos] = "\n"
    THEN skipWhitespace(text, pos + 1)
    ELSE pos

\* scanToken(): w is the world afterwards and r the next token of the source,
\* EOF once at the end.  "@" is a character the scanner rejects: an ERROR
\* token whose lexeme is the scanner's message.
scanToken(w) ==
  LET makeToken(pos, line) ==
        IF pos > Len(w.source)
          THEN [w |-> [w EXCEPT !.scanPos = pos], r |-> Token("EOF", "", line)]
          ELSE [w |-> [w EXCEPT !.scanPos = pos + 1],
                r |-> Token(TokenType(w.source[pos]),
                            IF w.source[pos] = "@" THEN "Unexpected character."
                            ELSE w.source[pos],
                            line)]
      scanAt(pos) ==
        makeToken(pos, 1 + Cardinality({i \in 1 .. pos - 1 : w.source[i] = "\n"}))
  IN  scanAt(skipWhitespace(w.source, w.scanPos))

-----------------------------------------------------------------------------
(* Error reporting *)

\* errorAt() without the assignment to hadError.
errorAtKeepsFlag(w, token, message) ==
  IF w.parser.panicMode
    THEN w
    ELSE [w EXCEPT
            !.parser.panicMode = TRUE,
            !.stderr = Append(@,
               [line |-> token.line,
                at |-> IF token.type = "EOF" THEN "end"
                       ELSE IF token.type = "ERROR" THEN ""
                       ELSE token.start,
                message |-> message])]

\* errorAt() without the early return under panicMode.
errorAtInPanic(w, token, message) ==
  [w EXCEPT
     !.parser.panicMode = TRUE,
     !.parser.hadError = TRUE,
     !.stderr = Append(@,
        [line |-> token.line,
         at |-> IF token.type = "EOF" THEN "end"
                ELSE IF token.type = "ERROR" THEN ""
                ELSE token.start,
         message |-> message])]

errorAt(w, token, message) ==
  IF w.parser.panicMode
    THEN w
    ELSE [w EXCEPT
            !.parser.panicMode = TRUE,
            !.parser.hadError = TRUE,
            !.stderr = Append(@,
               [line |-> token.line,
                at |-> IF token.type = "EOF" THEN "end"
                       ELSE IF token.type = "ERROR" THEN ""
                       ELSE token.start,
                message |-> message])]

error(w, message) == errorAt(w, w.parser.previous, message)

errorAtCurrent(w, message) == errorAt(w, w.parser.current, message)

-----------------------------------------------------------------------------
(* Parser driver *)

RECURSIVE advanceLoop(_)
advanceLoop(w) ==
  LET scanned(w1) ==
        IF w1.parser.current.type # "ERROR" THEN w1
        ELSE advanceLoop(errorAtCurrent(w1, w1.parser.current.start))
      assign(tok) == scanned([tok.w EXCEPT !.parser.current = tok.r])
  IN  assign(scanToken(w))

advance(w) == advanceLoop([w EXCEPT !.parser.previous = w.parser.current])

check(w, type) == type = w.parser.current.type

consume(w, type, message) ==
  IF check(w, type) THEN advance(w) ELSE errorAtCurrent(w, message)

\* match(): the world afterwards; it returned true iff check(w, type) held.
match(w, type) == IF check(w, type) THEN advance(w) ELSE w

-----------------------------------------------------------------------------
(* Chunk writer and emitter *)

\* initChunk(); the last four fields are history: the offsets emitJump
\* returned; the offsets patchJump was given, in order, and the chunk's count
\* at each of those calls; and for each emitLoop call the offset of its
\* OP_LOOP and the loopStart it was given.
initChunk ==
  [count |-> 0, code |-> <<>>, lines |-> <<>>, constants |-> <<>>,
   emitted |-> <<>>, patched |-> <<>>, targets |-> <<>>, loops |-> <<>>]

\* writeChunk() without the write to lines.
writeChunkNoLine(chunk, byte, line) ==
  [chunk EXCEPT !.code = Append(@, byte),
                !.count = @ + 1]

writeChunk(chunk, byte, line) ==
  [chunk EXCEPT !.code = Append(@, byte),
                !.lines = Append(@, line),
                !.count = @ + 1]

current(w) == w.compilers[Len(w.compilers)]

currentChunk(w) == current(w).function.chunk

emitByte(w, byte) ==
  [w EXCEPT !.compilers[Len(w.compilers)].function.chunk =
              writeChunk(@, byte % 256, w.parser.previous.line)]

emitBytes(w, byte1, byte2) == emitByte(emitByte(w, byte1), byte2)

\* emitByte() for each byte of a sequence in turn.
emitSeq(w, bytes) ==
  [w EXCEPT !.compilers[Len(w.compilers)].function.chunk =
     [@ EXCEPT !.code = @ \o [i \in 1 .. Len(bytes) |-> bytes[i] % 256],
               !.lines = @ \o [i \in 1 .. Len(bytes) |-> w.parser.previous.line],
               !.count = @ + Len(bytes)]]

\* emitJump(): the world afterwards; the offset it returned is
\* currentChunk(w').count - 2.
emitJump(w, instruction) ==
  LET w1 == emitByte(emitByte(emitByte(w, instruction), 255), 255)
  IN  [w1 EXCEPT !.compilers[Len(w.compilers)].function.chunk.emitted =
                   Append(@, currentChunk(w1).count - 2)]

jumpOffset(w) == currentChunk(w).count - 2

emitLoop(w, loopStart) ==
  LET operand(w1, offset) ==
        emitByte(emitByte(IF offset > UINT16_MAX
                            THEN error(w1, "Loop body too large.") ELSE w1,
                          (offset \div 256) % 256),
                 offset % 256)
      after(w1) == operand(w1, currentChunk(w1).count - loopStart + 2)
  IN  [after(emitByte(w, OP.OP_LOOP))
         EXCEPT !.compilers[Len(w.compilers)].function.chunk.loops =
                  Append(@, [at |-> currentChunk(w).count, start |-> loopStart])]

emitReturn(w) ==
  emitByte(IF current(w).type = "TYPE_INITIALIZER"
             THEN emitBytes(w, OP.OP_GET_LOCAL, 0)
             ELSE emitByte(w, OP.OP_NIL),
           OP.OP_RETURN)

\* addConstant() of chunk.c followed by makeConstant()'s range check.
makeConstant(w, value) ==
  LET checked(w1, constant) ==
        IF constant > UINT8_MAX
          THEN [w |-> error(w1, "Too many constants in one chunks."), r |-> 0]
          ELSE [w |-> w1, r |-> constant]
      added(w1) == checked(w1, Len(currentChunk(w1).constants) - 1)
  IN  added([w EXCEPT !.compilers[Len(w.compilers)].function.chunk.constants =
                        Append(@, value)])

emitConstant(w, value) ==
  LET emit(c) == emitBytes(c.w, OP.OP_CONSTANT, c.r) IN emit(makeConstant(w, value))

\* patchJump() measuring the jump from the operand instead of from past it.
patchJumpFromOperand(w, offset) ==
  LET jump == currentChunk(w).count - offset
      w1 == IF jump > UINT16_MAX THEN error(w, "Cannot jump this far !") ELSE w
  IN  [w1 EXCEPT !.compilers[Len(w.compilers)].function.chunk =
         [@ EXCEPT !.code = [@ EXCEPT ![offset + 1] = (jump \div 256) % 256,
                                      ![offset + 2] = jump % 256],
                   !.patched = Append(@, offset),
                   !.targets = Append(@, currentChunk(w).count)]]

patchJump(w, offset) ==
  LET jump == currentChunk(w).count - offset - 2
      w1 == IF jump > UINT16_MAX THEN error(w, "Cannot jump this far !") ELSE w
  IN  [w1 EXCEPT !.compilers[Len(w.compilers)].function.chunk =
         [@ EXCEPT !.code = [@ EXCEPT ![offset + 1] = (jump \div 256) % 256,
                                      ![offset + 2] = jump % 256],
                   !.patched = Append(@, offset),
                   !.targets = Append(@, currentChunk(w).count)]]

-----------------------------------------------------------------------------
(* Function compilers, scopes and the resolver *)

\* newFunction(): arity 0, no upvalue, no name, an empty chunk.  The name is
\* <<>> for NULL and <<chars>> otherwise.
newFunction == [arity |-> 0, upvalueCount |-> 0, name |-> <<>>, chunk |-> initChunk]

\* Values of the constant pool.
NUMBER_VAL(value) == [kind |-> "NUMBER", val |-> value]

OBJ_VAL(kind, obj) == [kind |-> kind, val |-> obj]

Local(name, depth, isCaptured) ==
  [name |-> name, depth |-> depth, isCaptured |-> isCaptured]

\* localCount is the length of locals; the upvalue table's length is
\* function.upvalueCount.  The field marks is history: the locals as they
\* were at the beginScope() of each scope that is open.
\* initCompiler() naming slot 0 `this` for methods and initializers only.
initCompilerThisInMethods(w, type) ==
  LET function == IF type # "TYPE_SCRIPT"
                    THEN [newFunction EXCEPT !.name = <<w.parser.previous.start>>]
                    ELSE newFunction
      local == Local(syntheticToken(IF type \in {"TYPE_METHOD", "TYPE_INITIALIZER"}
                                      THEN "this" ELSE ""),
                     0, FALSE)
  IN  [w EXCEPT !.compilers = Append(@,
         [type |-> type, function |-> function, locals |-> <<local>>,
          upvalues |-> <<>>, scopeDepth |-> 0, marks |-> <<>>])]

initCompiler(w, type) ==
  LET function == IF type # "TYPE_SCRIPT"
                    THEN [newFunction EXCEPT !.name = <<w.parser.previous.start>>]
                    ELSE newFunction
      local == Local(syntheticToken(IF type # "TYPE_FUNCTION" THEN "this" ELSE ""),
                     0, FALSE)
  IN  [w EXCEPT !.compilers = Append(@,
         [type |-> type, function |-> function, locals |-> <<local>>,
          upvalues |-> <<>>, scopeDepth |-> 0, marks |-> <<>>])]

\* endCompiler(): r is the function it returned.
endCompiler(w) ==
  LET leave(w1) == [w |-> [w1 EXCEPT !.compilers = SubSeq(@, 1, Len(@) - 1)],
                    r |-> current(w1).function]
  IN  leave(emitReturn(w))

beginScope(w) ==
  [w EXCEPT !.compilers[Len(w.compilers)].scopeDepth = @ + 1,
            !.compilers[Len(w.compilers)].marks = Append(@, current(w).locals)]

\* endScope() emitting OP_POP for every local, captured or not.
endScopePopsOnly(w) ==
  LET c == current(w)
      scopeDepth == c.scopeDepth - 1
      n == Len(c.locals)
      localCount == CHOOSE k \in 0 .. n :
                      /\ \A j \in k + 1 .. n : c.locals[j].depth > scopeDepth
                      /\ k > 0 => ~(c.locals[k].depth > scopeDepth)
      w1 == emitSeq(w, [i \in 1 .. n - localCount |-> OP.OP_POP])
  IN  [w1 EXCEPT !.compilers[Len(w.compilers)].scopeDepth = scopeDepth,
                 !.compilers[Len(w.compilers)].locals = SubSeq(@, 1, localCount),
                 !.compilers[Len(w.compilers)].marks = SubSeq(@, 1, Len(@) - 1)]

\* endScope(): the loop pops the locals above the scope left, innermost
\* first, with one OP_CLOSE_UPVALUE or OP_POP each.
endScope(w) ==
  LET c == current(w)
      scopeDepth == c.scopeDepth - 1
      n == Len(c.locals)
      localCount == CHOOSE k \in 0 .. n :
                      /\ \A j \in k + 1 .. n : c.locals[j].depth > scopeDepth
                      /\ k > 0 => ~(c.locals[k].depth > scopeDepth)
      w1 == emitSeq(w, [i \in 1 .. n - localCount |->
                          IF c.locals[n - i + 1].isCaptured
                            THEN OP.OP_CLOSE_UPVALUE ELSE OP.OP_POP])
  IN  [w1 EXCEPT !.compilers[Len(w.compilers)].scopeDepth = scopeDepth,
                 !.compilers[Len(w.compilers)].locals = SubSeq(@, 1, localCount),
                 !.compilers[Len(w.compilers)].marks = SubSeq(@, 1, Len(@) - 1)]

identifierConstant(w, name) == makeConstant(w, OBJ_VAL("STRING", name.start))

identifiersEqual(a, b) == a.start = b.start

\* resolveLocal() without the test of depth == -1.
resolveLocalAnyDepth(w, ci, name) ==
  LET locals == w.compilers[ci].locals
      named == {i \in 0 .. Len(locals) - 1 : identifiersEqual(locals[i + 1].name, name)}
  IN  IF named = {} THEN [w |-> w, r |-> -1]
      ELSE [w |-> w, r |-> CHOOSE i \in named : \A j \in named : j <= i]

\* resolveLocal(compiler, name), compiler given by its position ci in the
\* chain: r is the slot of the last local of that name, or -1.
resolveLocal(w, ci, name) ==
  LET locals == w.compilers[ci].locals
      named == {i \in 0 .. Len(locals) - 1 : identifiersEqual(locals[i + 1].name, name)}
  IN  IF named = {} THEN [w |-> w, r |-> -1]
      ELSE LET i == CHOOSE i \in named : \A j \in named : j <= i
           IN  [w |-> IF locals[i + 1].depth = -1
                        THEN error(w, "Can't read local variable in its own initializer.")
                        ELSE w,
                r |-> i]

Upvalue(index, isLocal) == [index |-> index, isLocal |-> isLocal]

\* addUpvalue() without the search for an existing descriptor.
addUpvalueNoSearch(w, ci, index, isLocal) ==
  LET upvalueCount == w.compilers[ci].function.upvalueCount
  IN  IF upvalueCount = UINT8_COUNT
        THEN [w |-> error(w, "Too many closure variable in function."), r |-> 0]
      ELSE [w |-> [w EXCEPT !.compilers[ci].upvalues =
                              Append(@, Upvalue(index, isLocal)),
                            !.compilers[ci].function.upvalueCount = @ + 1],
            r |-> upvalueCount]

addUpvalue(w, ci, index, isLocal) ==
  LET upvalues == w.compilers[ci].upvalues
      upvalueCount == w.compilers[ci].function.upvalueCount
      found == {i \in 0 .. upvalueCount - 1 :
                  /\ upvalues[i + 1].index = index
                  /\ upvalues[i + 1].isLocal = isLocal}
  IN  IF found # {}
        THEN [w |-> w, r |-> CHOOSE i \in found : \A j \in found : i <= j]
      ELSE IF upvalueCount = UINT8_COUNT
        THEN [w |-> error(w, "Too many closure variable in function."), r |-> 0]
      ELSE [w |-> [w EXCEPT !.compilers[ci].upvalues =
                              Append(@, Upvalue(index, isLocal)),
                            !.compilers[ci].function.upvalueCount = @ + 1],
            r |-> upvalueCount]

\* resolveUpvalue() without the assignment to isCaptured.
RECURSIVE resolveUpvalueUnmarked(_, _, _)
resolveUpvalueUnmarked(w, ci, name) ==
  LET enclosing(upvalue) ==
        IF upvalue.r # -1
          THEN addUpvalue(upvalue.w, ci, upvalue.r % 256, FALSE)
          ELSE [w |-> upvalue.w, r |-> -1]
      resolved(local) ==
        IF local.r # -1
          THEN addUpvalue(local.w, ci, local.r % 256, TRUE)
          ELSE enclosing(resolveUpvalueUnmarked(local.w, ci - 1, name))
  IN  IF ci = 1 THEN [w |-> w, r |-> -1]
      ELSE resolved(resolveLocal(w, ci - 1, name))

RECURSIVE resolveUpvalue(_, _, _)
resolveUpvalue(w, ci, name) ==
  LET enclosing(upvalue) ==
        IF upvalue.r # -1
          THEN addUpvalue(upvalue.w, ci, upvalue.r % 256, FALSE)
          ELSE [w |-> upvalue.w, r |-> -1]
      resolved(local) ==
        IF local.r # -1
          THEN addUpvalue(
                 [local.w EXCEPT !.compilers[ci - 1].locals[local.r + 1].isCaptured = TRUE],
                 ci, local.r % 256, TRUE)
          ELSE enclosing(resolveUpvalue(local.w, ci - 1, name))
  IN  IF ci = 1 THEN [w |-> w, r |-> -1]
      ELSE resolved(resolveLocal(w, ci - 1, name))

\* addLocal() without the test of localCount == UINT8_COUNT.
addLocalUnbounded(w, name) ==
  [w EXCEPT !.compilers[Len(w.compilers)].locals = Append(@, Local(name, -1, FALSE))]

addLocal(w, name) ==
  IF Len(current(w).locals) = UINT8_COUNT
    THEN error(w, "Too many local variables in function (max 256).")
    ELSE [w EXCEPT !.compilers[Len(w.compilers)].locals =
                     Append(@, Local(name, -1, FALSE))]

\* declareVariable() without the return at scopeDepth 0.
declareVariableAtTopLevel(w) ==
  LET c == current(w)
      name == w.parser.previous
      n == Len(c.locals)
      enclosing == {i \in 0 .. n - 1 : /\ c.locals[i + 1].depth # -1
                                       /\ c.locals[i + 1].depth < c.scopeDepth}
      break == IF enclosing = {} THEN -1
               ELSE CHOOSE i \in enclosing : \A j \in enclosing : j <= i
  IN  addLocal(
        IF \E i \in break + 1 .. n - 1 : identifiersEqual(name, c.locals[i + 1].name)
          THEN error(w, "Already a variable with this name in this scope.")
          ELSE w,
        name)

\* declareVariable(): the loop looks at the locals from the last one down to
\* the first one of an enclosing scope.
declareVariable(w) ==
  LET c == current(w)
      name == w.parser.previous
      n == Len(c.locals)
      enclosing == {i \in 0 .. n - 1 : /\ c.locals[i + 1].depth # -1
                                       /\ c.locals[i + 1].depth < c.scopeDepth}
      break == IF enclosing = {} THEN -1
               ELSE CHOOSE i \in enclosing : \A j \in enclosing : j <= i
  IN  IF c.scopeDepth = 0 THEN w
      ELSE addLocal(
             IF \E i \in break + 1 .. n - 1 : identifiersEqual(name, c.locals[i + 1].name)
               THEN error(w, "Already a variable with this name in this scope.")
               ELSE w,
             name)

parseVariable(w, errorMessage) ==
  LET declared(w1) ==
        IF current(w1).scopeDepth > 0 THEN [w |-> w1, r |-> 0]
        ELSE identifierConstant(w1, w1.parser.previous)
  IN  declared(declareVariable(consume(w, "IDENTIFIER", errorMessage)))

markInitialized(w) ==
  IF current(w).scopeDepth = 0 THEN w
  ELSE [w EXCEPT !.compilers[Len(w.compilers)].locals[Len(current(w).locals)].depth =
                   current(w).scopeDepth]

defineVariable(w, global) ==
  IF current(w).scopeDepth > 0 THEN markInitialized(w)
  ELSE emitBytes(w, OP.OP_DEFINE_GLOBAL, global)

\* namedVariable() up to its call of expression(): assign tells whether it
\* took the `=` (and then calls expression() and emits setOp, arg); otherwise
\* it has emitted getOp, arg and is done.
namedVariableHead(w, name, canAssign) ==
  LET access(w1, getOp, setOp, arg) ==
        IF canAssign /\ check(w1, "EQUAL")
          THEN [w |-> match(w1, "EQUAL"), assign |-> TRUE, setOp |-> setOp, arg |-> arg]
          ELSE [w |-> emitBytes(w1, getOp, arg), assign |-> FALSE, setOp |-> setOp,
                arg |-> arg]
      select(local, upvalue, global) ==
        IF local.r # -1
          THEN access(local.w, OP.OP_GET_LOCAL, OP.OP_SET_LOCAL, local.r)
        ELSE IF upvalue.r # -1
          THEN access(upvalue.w, OP.OP_GET_UPVALUE, OP.OP_SET_UPVALUE, upvalue.r)
        ELSE access(global.w, OP.OP_GET_GLOBAL, OP.OP_SET_GLOBAL, global.r)
      asUpvalue(local, upvalue) ==
        select(local, upvalue, identifierConstant(upvalue.w, name))
      asLocal(local) ==
        asUpvalue(local, resolveUpvalue(local.w, Len(w.compilers), name))
  IN  asLocal(resolveLocal(w, Len(w.compilers), name))

\* synchronize()
RECURSIVE synchronizeLoop(_)
synchronizeLoop(w) ==
  IF w.parser.current.type = "EOF" THEN w
  ELSE IF w.parser.previous.type = "SEMICOLON" THEN w
  ELSE IF w.parser.current.type \in
            {"CLASS", "FUN", "VAR", "FOR", "IF", "WHILE", "PRINT", "RETURN"} THEN w
  ELSE synchronizeLoop(advance(w))

synchronize(w) == synchronizeLoop([w EXCEPT !.parser.panicMode = FALSE])

-----------------------------------------------------------------------------
(* The call stack of grammar functions *)

\* A frame: the function, its position, its C locals.  The fields `at` and
\* `from` are history: the count of the current chunk and the position of the
\* scanner when the function was called.
Frame(fn, v) == [fn |-> fn, pc |-> 0, v |-> v, at |-> 0, from |-> 0]

Top == frames[Len(frames)]

Below == SubSeq(frames, 1, Len(frames) - 1)

Running(fn, pc) == frames # <<>> /\ Top.fn = fn /\ Top.pc = pc

\* The running frame at a later position, with its locals v.
Cont(pc, v) == [fn |-> Top.fn, pc |-> pc, v |-> v, at |-> Top.at, from |-> Top.from]

Commit(w) ==
  /\ source' = w.source
  /\ parser' = w.parser
  /\ scanPos' = w.scanPos
  /\ compilers' = w.compilers
  /\ classCompilers' = w.classCompilers
  /\ stderr' = w.stderr

\* The running function goes on at frame, calls callee (and goes on at frame
\* when callee returns), or returns.
Goto(w, frame) ==
  /\ Commit(w)
  /\ frames' = Append(Below, [frame EXCEPT !.at = Top.at, !.from = Top.from])
  /\ UNCHANGED <<retval, result>>

Call(w, frame, callee) ==
  /\ Commit(w)
  /\ frames' = Below \o <<frame, [callee EXCEPT !.at = currentChunk(w).count,
                                                  !.from = position(w)]>>
  /\ UNCHANGED <<retval, result>>

Return(w) ==
  /\ Commit(w)
  /\ frames' = Below
  /\ UNCHANGED <<retval, result>>

ReturnValue(w, r) ==
  /\ Commit(w)
  /\ frames' = Below
  /\ retval' = r
  /\ UNCHANGED result

parsePrecendenceFrame(precedence) ==
  Frame("parsePrecendence", [precedence |-> precedence, canAssign |-> FALSE])

\* expression() is parsePrecendence(PREC_ASSIGNMENT).
expression == parsePrecendenceFrame(PREC.ASSIGNMENT)

-----------------------------------------------------------------------------
(* The Pratt engine and the expression handlers *)

parsePrecendence ==
  \/ /\ Running("parsePrecendence", 0)
     /\ LET canAssign == Top.v.precedence <= PREC.ASSIGNMENT
            prefix(w1, prefixRule) ==
              IF prefixRule = "NULL"
                THEN Return(error(w1, "Expect expression."))
                ELSE Call(w1, Cont(1, [Top.v EXCEPT !.canAssign = canAssign]),
                          Frame(prefixRule, [canAssign |-> canAssign]))
            advanced(w1) == prefix(w1, getRule(w1.parser.previous.type).prefix)
        IN  advanced(advance(World))
  \/ /\ Running("parsePrecendence", 1)
     /\ IF Top.v.precedence <= getRule(parser.current.type).precedence
          THEN LET infix(w1) ==
                     Call(w1, Top, Frame(getRule(w1.parser.previous.type).infix,
                                         [canAssign |-> Top.v.canAssign]))
               IN  infix(advance(World))
          ELSE Return(IF Top.v.canAssign /\ check(World, "EQUAL")
                        THEN error(match(World, "EQUAL"), "Invalid assignement target.")
                        ELSE World)

binaryOps(operatorType) ==
  CASE operatorType = "BANG_EQUAL" -> <<OP.OP_EQUAL, OP.OP_NOT>>
    [] operatorType = "EQUAL_EQUAL" -> <<OP.OP_EQUAL>>
    [] operatorType = "GREATER" -> <<OP.OP_GREATER>>
    [] operatorType = "GREATER_EQUAL" -> <<OP.OP_LESS, OP.OP_NOT>>
    [] operatorType = "LESS" -> <<OP.OP_LESS>>
    [] operatorType = "LESS_EQUAL" -> <<OP.OP_GREATER, OP.OP_NOT>>
    [] operatorType = "PLUS" -> <<OP.OP_ADD>>
    [] operatorType = "MINUS" -> <<OP.OP_SUBSTRACT>>
    [] operatorType = "STAR" -> <<OP.OP_MULTIPLY>>
    [] operatorType = "SLASH" -> <<OP.OP_DIVIDE>>
    [] OTHER -> <<>>

binary ==
  \/ /\ Running("binary", 0)
     /\ LET operatorType == parser.previous.type
            rule == getRule(operatorType)
        IN  Call(World, Cont(1, [operatorType |-> operatorType]),
                 parsePrecendenceFrame(rule.precedence + 1))
  \/ /\ Running("binary", 1)
     /\ Return(emitSeq(World, binaryOps(Top.v.operatorType)))

argumentList ==
  \/ /\ Running("argumentList", 0)
     /\ IF ~check(World, "RIGHT_PAREN")
          THEN Call(World, Cont(1, [argCount |-> 0]), expression)
          ELSE ReturnValue(consume(World, "RIGHT_PAREN", "Expect ')' after arguments."), 0)
  \/ /\ Running("argumentList", 1)
     /\ LET argCount == (Top.v.argCount + 1) % 256
            counted(w1) ==
              IF check(w1, "COMMA")
                THEN Call(match(w1, "COMMA"), Cont(1, [argCount |-> argCount]),
                          expression)
                ELSE ReturnValue(consume(w1, "RIGHT_PAREN",
                                         "Expect ')' after arguments."),
                                 argCount)
        IN  counted(IF Top.v.argCount = 255
                      THEN error(World, "Can't have more than 255 arguments.")
                      ELSE World)

call ==
  \/ /\ Running("call", 0)
     /\ Call(World, Cont(1, Top.v), Frame("argumentList", <<>>))
  \/ /\ Running("call", 1)
     /\ Return(emitBytes(World, OP.OP_CALL, retval))

dot ==
  \/ /\ Running("dot", 0)
     /\ LET property(name) ==
              IF Top.v.canAssign /\ check(name.w, "EQUAL")
                THEN Call(match(name.w, "EQUAL"), Cont(1, [name |-> name.r]),
                          expression)
              ELSE IF check(name.w, "LEFT_PAREN")
                THEN Call(match(name.w, "LEFT_PAREN"), Cont(2, [name |-> name.r]),
                          Frame("argumentList", <<>>))
              ELSE Return(emitBytes(name.w, OP.OP_GET_PROPERTY, name.r))
            named(w1) == property(identifierConstant(w1, w1.parser.previous))
        IN  named(consume(World, "IDENTIFIER", "Expect property name after '.'."))
  \/ /\ Running("dot", 1)
     /\ Return(emitBytes(World, OP.OP_SET_PROPERTY, Top.v.name))
  \/ /\ Running("dot", 2)
     /\ Return(emitByte(emitBytes(World, OP.OP_INVOKE, Top.v.name), retval))

literal ==
  /\ Running("literal", 0)
  /\ Return(CASE parser.previous.type = "NIL" -> emitByte(World, OP.OP_NIL)
              [] parser.previous.type = "TRUE" -> emitByte(World, OP.OP_TRUE)
              [] parser.previous.type = "FALSE" -> emitByte(World, OP.OP_FALSE)
              [] OTHER -> World)

grouping ==
  \/ /\ Running("grouping", 0)
     /\ Call(World, Cont(1, Top.v), expression)
  \/ /\ Running("grouping", 1)
     /\ Return(consume(World, "RIGHT_PAREN", "Expect ')' after expression."))

\* strtod() on the number lexemes of the sources.
strtod(start) == CHOOSE n \in 0 .. 9 : ToString(n) = start

number ==
  /\ Running("number", 0)
  /\ Return(emitConstant(World, NUMBER_VAL(strtod(parser.previous.start))))

\* or_() returning without patching endJump.
or_Unpatched ==
  \/ /\ Running("or_", 0)
     /\ LET right(w2, elseJump, endJump) ==
              Call(emitByte(patchJump(w2, elseJump), OP.OP_POP),
                   Cont(1, [elseJump |-> elseJump, endJump |-> endJump]),
                   parsePrecendenceFrame(PREC.OR))
            ended(w2, elseJump) == right(w2, elseJump, jumpOffset(w2))
            left(w1) == ended(emitJump(w1, OP.OP_JUMP), jumpOffset(w1))
        IN  left(emitJump(World, OP.OP_JUMP_IF_FALSE))
  \/ /\ Running("or_", 1)
     /\ Return(World)

or_ ==
  \/ /\ Running("or_", 0)
     /\ LET right(w2, elseJump, endJump) ==
              Call(emitByte(patchJump(w2, elseJump), OP.OP_POP),
                   Cont(1, [elseJump |-> elseJump, endJump |-> endJump]),
                   parsePrecendenceFrame(PREC.OR))
            ended(w2, elseJump) == right(w2, elseJump, jumpOffset(w2))
            left(w1) == ended(emitJump(w1, OP.OP_JUMP), jumpOffset(w1))
        IN  left(emitJump(World, OP.OP_JUMP_IF_FALSE))
  \/ /\ Running("or_", 1)
     /\ Return(patchJump(World, Top.v.endJump))

and_ ==
  \/ /\ Running("and_", 0)
     /\ LET right(w1) ==
              Call(emitByte(w1, OP.OP_POP), Cont(1, [endJump |-> jumpOffset(w1)]),
                   parsePrecendenceFrame(PREC.AND))
        IN  right(emitJump(World, OP.OP_JUMP_IF_FALSE))
  \/ /\ Running("and_", 1)
     /\ Return(patchJump(World, Top.v.endJump))

\* copyString(start + 1, length - 2): the lexeme without its quotes.  String
\* lexemes are written "'chars'" in the sources.
unquote(start) ==
  CASE start = "'s'" -> "s"
    [] start = "'t'" -> "t"
    [] start = "''" -> ""
    [] OTHER -> start

string ==
  /\ Running("string", 0)
  /\ Return(emitConstant(World, OBJ_VAL("STRING", unquote(parser.previous.start))))

namedVariable ==
  \/ /\ Running("namedVariable", 0)
     /\ LET resolved(h) ==
              IF h.assign
                THEN Call(h.w, Cont(1, [setOp |-> h.setOp, arg |-> h.arg]), expression)
                ELSE Return(h.w)
        IN  resolved(namedVariableHead(World, Top.v.name, Top.v.canAssign))
  \/ /\ Running("namedVariable", 1)
     /\ Return(emitBytes(World, Top.v.setOp, Top.v.arg))

variable ==
  /\ Running("variable", 0)
  /\ Goto(World, Frame("namedVariable",
                       [name |-> parser.previous, canAssign |-> Top.v.canAssign]))

super_ ==
  \/ /\ Running("super_", 0)
     /\ LET access(w4, name) ==
              IF check(w4, "LEFT_PAREN")
                THEN Call(match(w4, "LEFT_PAREN"), Cont(1, [name |-> name]),
                          Frame("argumentList", <<>>))
                ELSE Return(emitBytes(
                       namedVariableHead(w4, syntheticToken("super"), FALSE).w,
                       OP.OP_GET_SUPER, name))
            receiver(name) ==
              access(namedVariableHead(name.w, syntheticToken("this"), FALSE).w, name.r)
            method(w3) == receiver(identifierConstant(w3, w3.parser.previous))
        IN  method(consume(
                     consume(IF classCompilers = <<>>
                               THEN error(World, "Can't use 'super' outside of a class.")
                             ELSE IF ~classCompilers[Len(classCompilers)].hasSuperclass
                               THEN error(World,
                                          "Can't use 'super' in a class with no superclass.")
                             ELSE World,
                             "DOT", "Expect '.' after 'super'."),
                     "IDENTIFIER", "Expect superclass method name."))
  \/ /\ Running("super_", 1)
     /\ LET argCount == retval
        IN  Return(emitByte(
                     emitBytes(namedVariableHead(World, syntheticToken("super"), FALSE).w,
                               OP.OP_SUPER_INVOKE, Top.v.name),
                     argCount))

this_ ==
  /\ Running("this_", 0)
  /\ IF classCompilers = <<>>
       THEN Return(error(World, "Can't use 'this' outside of a class."))
       ELSE Return(namedVariableHead(World, parser.previous, FALSE).w)

unaryOps(operatorType) ==
  CASE operatorType = "BANG" -> <<OP.OP_NOT>>
    [] operatorType = "MINUS" -> <<OP.OP_NEGATE>>
    [] OTHER -> <<>>

unary ==
  \/ /\ Running("unary", 0)
     /\ Call(World, Cont(1, [operatorType |-> parser.previous.type]),
             parsePrecendenceFrame(PREC.UNARY))
  \/ /\ Running("unary", 1)
     /\ Return(emitSeq(World, unaryOps(Top.v.operatorType)))

-----------------------------------------------------------------------------
(* Statements *)

\* block() without the test of EOF in its loop.
blockNoEofTest ==
  /\ Running("block", 0)
  /\ IF ~check(World, "RIGHT_BRACE")
       THEN Call(World, Top, Frame("declaration", <<>>))
       ELSE Return(consume(World, "RIGHT_BRACE", "Expect '}' after block."))

block ==
  /\ Running("block", 0)
  /\ IF ~check(World, "RIGHT_BRACE") /\ ~check(World, "EOF")
       THEN Call(World, Top, Frame("declaration", <<>>))
       ELSE Return(consume(World, "RIGHT_BRACE", "Expect '}' after block."))

expressionStatement ==
  \/ /\ Running("expressionStatement", 0)
     /\ Call(World, Cont(1, <<>>), expression)
  \/ /\ Running("expressionStatement", 1)
     /\ Return(emitByte(consume(World, "SEMICOLON", "Expect ';' after expression."),
                        OP.OP_POP))

printStatement ==
  \/ /\ Running("printStatement", 0)
     /\ Call(World, Cont(1, <<>>), expression)
  \/ /\ Running("printStatement", 1)
     /\ Return(emitByte(consume(World, "SEMICOLON", "Expect ';' after value."),
                        OP.OP_PRINT))

returnStatement ==
  \/ /\ Running("returnStatement", 0)
     /\ LET value(w1) ==
              IF check(w1, "SEMICOLON")
                THEN Return(emitReturn(match(w1, "SEMICOLON")))
                ELSE Call(IF current(w1).type = "TYPE_INITIALIZER"
                            THEN error(w1, "Can't return a value from an initializer.")
                            ELSE w1,
                          Cont(1, <<>>), expression)
        IN  value(IF current(World).type = "TYPE_SCRIPT"
                    THEN error(World, "can't return from top-level code.")
                    ELSE World)
  \/ /\ Running("returnStatement", 1)
     /\ Return(emitByte(consume(World, "SEMICOLON", "Expect ';' after return value."),
                        OP.OP_RETURN))

ifStatement ==
  \/ /\ Running("ifStatement", 0)
     /\ Call(consume(World, "LEFT_PAREN", "Expect '(' after 'if'."),
             Cont(1, <<>>), expression)
  \/ /\ Running("ifStatement", 1)
     /\ LET then(w2) ==
              Call(emitByte(w2, OP.OP_POP), Cont(2, [thenJump |-> jumpOffset(w2)]),
                   Frame("statement", <<>>))
        IN  then(emitJump(consume(World, "RIGHT_PAREN", "Expect ')' after condiftion."),
                          OP.OP_JUMP_IF_FALSE))
  \/ /\ Running("ifStatement", 2)
     /\ LET else(w2, elseJump) ==
              IF check(w2, "ELSE")
                THEN Call(match(w2, "ELSE"), Cont(3, [elseJump |-> elseJump]),
                          Frame("statement", <<>>))
                ELSE Return(patchJump(w2, elseJump))
            jumped(w1) ==
              else(emitByte(patchJump(w1, Top.v.thenJump), OP.OP_POP), jumpOffset(w1))
        IN  jumped(emitJump(World, OP.OP_JUMP))
  \/ /\ Running("ifStatement", 3)
     /\ Return(patchJump(World, Top.v.elseJump))

\* whileStatement() without the OP_POP after the exit jump is patched.
whileStatementNoExitPop ==
  \/ /\ Running("whileStatement", 0)
     /\ LET loopStart == currentChunk(World).count
        IN  Call(consume(World, "LEFT_PAREN", "Expect '(' after 'while'."),
                 Cont(1, [loopStart |-> loopStart]), expression)
  \/ /\ Running("whileStatement", 1)
     /\ LET body(w2) ==
              Call(emitByte(w2, OP.OP_POP),
                   Cont(2, [loopStart |-> Top.v.loopStart, exitJump |-> jumpOffset(w2)]),
                   Frame("statement", <<>>))
        IN  body(emitJump(consume(World, "RIGHT_PAREN",
                                  "Expect ')' after 'while' condition."),
                          OP.OP_JUMP_IF_FALSE))
  \/ /\ Running("whileStatement", 2)
     /\ Return(patchJump(emitLoop(World, Top.v.loopStart), Top.v.exitJump))

whileStatement ==
  \/ /\ Running("whileStatement", 0)
     /\ LET loopStart == currentChunk(World).count
        IN  Call(consume(World, "LEFT_PAREN", "Expect '(' after 'while'."),
                 Cont(1, [loopStart |-> loopStart]), expression)
  \/ /\ Running("whileStatement", 1)
     /\ LET body(w2) ==
              Call(emitByte(w2, OP.OP_POP),
                   Cont(2, [loopStart |-> Top.v.loopStart, exitJump |-> jumpOffset(w2)]),
                   Frame("statement", <<>>))
        IN  body(emitJump(consume(World, "RIGHT_PAREN",
                                  "Expect ')' after 'while' condition."),
                          OP.OP_JUMP_IF_FALSE))
  \/ /\ Running("whileStatement", 2)
     /\ Return(emitByte(patchJump(emitLoop(World, Top.v.loopStart), Top.v.exitJump),
                        OP.OP_POP))

\* forStatement: position 1 is the condition clause, 3 the increment clause,
\* 5 what follows the body.
forStatement ==
  \/ /\ Running("forStatement", 0)
     /\ LET initializer(w1) ==
              IF check(w1, "SEMICOLON")
                THEN Goto(match(w1, "SEMICOLON"), Cont(1, <<>>))
              ELSE IF check(w1, "VAR")
                THEN Call(match(w1, "VAR"), Cont(1, <<>>), Frame("varDeclaration", <<>>))
              ELSE Call(w1, Cont(1, <<>>), Frame("expressionStatement", <<>>))
        IN  initializer(consume(beginScope(World), "LEFT_PAREN",
                                "Expect '(' after 'for'."))
  \/ /\ Running("forStatement", 1)
     /\ LET loopStart == currentChunk(World).count
        IN  IF ~check(World, "SEMICOLON")
              THEN Call(World, Cont(2, [loopStart |-> loopStart, exitJump |-> -1]),
                        expression)
              ELSE Goto(match(World, "SEMICOLON"),
                        Cont(3, [loopStart |-> loopStart, exitJump |-> -1]))
  \/ /\ Running("forStatement", 2)
     /\ LET condition(w2) ==
              Goto(emitByte(w2, OP.OP_POP),
                   Cont(3, [Top.v EXCEPT !.exitJump = jumpOffset(w2)]))
        IN  condition(emitJump(consume(World, "SEMICOLON",
                                       "Expect ';' after loop condition."),
                               OP.OP_JUMP_IF_FALSE))
  \/ /\ Running("forStatement", 3)
     /\ IF ~check(World, "RIGHT_PAREN")
          THEN LET increment(w1) ==
                     Call(w1, Cont(4, [loopStart |-> Top.v.loopStart,
                                       exitJump |-> Top.v.exitJump,
                                       bodyJump |-> jumpOffset(w1),
                                       incrementStart |-> currentChunk(w1).count]),
                          expression)
               IN  increment(emitJump(World, OP.OP_JUMP))
          ELSE Call(match(World, "RIGHT_PAREN"), Cont(5, Top.v),
                    Frame("statement", <<>>))
  \/ /\ Running("forStatement", 4)
     /\ Call(patchJump(
                emitLoop(consume(emitByte(World, OP.OP_POP), "RIGHT_PAREN",
                                 "Expect ')' after for clause."),
                         Top.v.loopStart),
                Top.v.bodyJump),
             Cont(5, [loopStart |-> Top.v.incrementStart, exitJump |-> Top.v.exitJump]),
             Frame("statement", <<>>))
  \/ /\ Running("forStatement", 5)
     /\ LET exit(w1) ==
              IF Top.v.exitJump # -1
                THEN emitByte(patchJump(w1, Top.v.exitJump), OP.OP_POP)
                ELSE w1
        IN  Return(endScope(exit(emitLoop(World, Top.v.loopStart))))

\* statement(): the handlers it ends with take its place on the stack.
statement ==
  \/ /\ Running("statement", 0)
     /\ IF check(World, "PRINT")
          THEN Goto(match(World, "PRINT"), Frame("printStatement", <<>>))
        ELSE IF check(World, "LEFT_BRACE")
          THEN Call(beginScope(match(World, "LEFT_BRACE")), Cont(1, <<>>),
                    Frame("block", <<>>))
        ELSE IF check(World, "IF")
          THEN Goto(match(World, "IF"), Frame("ifStatement", <<>>))
        ELSE IF check(World, "RETURN")
          THEN Goto(match(World, "RETURN"), Frame("returnStatement", <<>>))
        ELSE IF check(World, "WHILE")
          THEN Goto(match(World, "WHILE"), Frame("whileStatement", <<>>))
        ELSE IF check(World, "FOR")
          THEN Goto(match(World, "FOR"), Frame("forStatement", <<>>))
        ELSE Goto(World, Frame("expressionStatement", <<>>))
  \/ /\ Running("statement", 1)
     /\ Return(endScope(World))

-----------------------------------------------------------------------------
(* Declarations *)

varDeclaration ==
  \/ /\ Running("varDeclaration", 0)
     /\ LET initializer(global) ==
              IF check(global.w, "EQUAL")
                THEN Call(match(global.w, "EQUAL"), Cont(1, [global |-> global.r]),
                          expression)
                ELSE Return(defineVariable(
                       consume(emitByte(global.w, OP.OP_NIL), "SEMICOLON",
                               "Expect ';' after variable declaration."),
                       global.r))
        IN  initializer(parseVariable(World, "Expect variable name."))
  \/ /\ Running("varDeclaration", 1)
     /\ Return(defineVariable(
          consume(World, "SEMICOLON", "Expect ';' after variable declaration."),
          Top.v.global))

\* The turn of the parameter loop without the test of arity > 255.
parameterUnchecked(w) ==
  LET define(constant) == defineVariable(constant.w, constant.r)
      counted(w1) == define(parseVariable(w1, "Expect parameter name."))
  IN  counted([w EXCEPT !.compilers[Len(w.compilers)].function.arity = @ + 1])

\* One turn of the parameter loop of function(), up to its test of the comma.
parameter(w) ==
  LET define(constant) == defineVariable(constant.w, constant.r)
      counted(w1) ==
        define(parseVariable(
                 IF current(w1).function.arity > 255
                   THEN errorAtCurrent(w1, "Can't have more than 255 parameters.")
                   ELSE w1,
                 "Expect parameter name."))
  IN  counted([w EXCEPT !.compilers[Len(w.compilers)].function.arity = @ + 1])

\* The closure trailer with the index before the flag.
emitUpvaluesIndexFirst(w, upvalues, upvalueCount) ==
  emitSeq(w, [i \in 1 .. 2 * upvalueCount |->
                IF i % 2 = 0
                  THEN IF upvalues[i \div 2].isLocal THEN 1 ELSE 0
                  ELSE upvalues[(i + 1) \div 2].index])

\* The closure trailer of function(): two bytes per upvalue.
emitUpvalues(w, upvalues, upvalueCount) ==
  emitSeq(w, [i \in 1 .. 2 * upvalueCount |->
                IF i % 2 = 1
                  THEN IF upvalues[(i + 1) \div 2].isLocal THEN 1 ELSE 0
                  ELSE upvalues[i \div 2].index])

\* function(): position 2 is the parameter loop, 3 what follows it, 1 what
\* follows the body.
function ==
  \/ /\ Running("function", 0)
     /\ LET parameters(w2) ==
              Goto(w2, Cont(IF ~check(w2, "RIGHT_PAREN") THEN 2 ELSE 3, Top.v))
        IN  parameters(consume(beginScope(initCompiler(World, Top.v.type)),
                               "LEFT_PAREN", "Expect '(' after function name."))
  \/ /\ Running("function", 2)
     /\ LET more(w1) ==
              IF check(w1, "COMMA")
                THEN Goto(match(w1, "COMMA"), Top)
                ELSE Goto(w1, Cont(3, Top.v))
        IN  more(parameter(World))
  \/ /\ Running("function", 3)
     /\ Call(consume(consume(World, "RIGHT_PAREN", "Expect ')' after parameters."),
                     "LEFT_BRACE", "Expect '{' before function body."),
             Cont(1, Top.v), Frame("block", <<>>))
  \/ /\ Running("function", 1)
     /\ LET compiler == current(World)
            closure(constant, function) ==
              Return(emitUpvalues(emitBytes(constant.w, OP.OP_CLOSURE, constant.r),
                                  compiler.upvalues, function.upvalueCount))
            ended(e) == closure(makeConstant(e.w, OBJ_VAL("FUNCTION", e.r)), e.r)
        IN  ended(endCompiler(World))

method ==
  \/ /\ Running("method", 0)
     /\ LET body(constant, type) ==
              Call(constant.w, Cont(1, [constant |-> constant.r]),
                   Frame("function", [type |-> type]))
            named(w1) ==
              body(identifierConstant(w1, w1.parser.previous),
                   IF w1.parser.previous.start = "init"
                     THEN "TYPE_INITIALIZER" ELSE "TYPE_METHOD")
        IN  named(consume(World, "IDENTIFIER", "Expect method name."))
  \/ /\ Running("method", 1)
     /\ Return(emitBytes(World, OP.OP_METHOD, Top.v.constant))

classDeclaration ==
  \/ /\ Running("classDeclaration", 0)
     /\ LET inherit(w6, className) ==
              [emitByte(
                 namedVariableHead(
                   defineVariable(
                     addLocal(beginScope(IF identifiersEqual(className, w6.parser.previous)
                                           THEN error(w6, "A class can't inherit from itself")
                                           ELSE w6),
                              syntheticToken("super")),
                     0),
                   className, FALSE).w,
                 OP.OP_INHERIT)
                 EXCEPT !.classCompilers[Len(w6.classCompilers)].hasSuperclass = TRUE]
            superclass(w5) == namedVariableHead(w5, w5.parser.previous, FALSE).w
            body(w4, className) ==
              Goto(consume(
                     namedVariableHead(
                       IF check(w4, "LESS")
                         THEN inherit(superclass(consume(match(w4, "LESS"), "IDENTIFIER",
                                                         "Expect superclass name.")),
                                      className)
                         ELSE w4,
                       className, FALSE).w,
                     "LEFT_BRACE", "Expect '{' before class body."),
                   Cont(1, <<>>))
            declare(nameConstant, className) ==
              body([defineVariable(emitBytes(declareVariable(nameConstant.w),
                                             OP.OP_CLASS, nameConstant.r),
                                   nameConstant.r)
                      EXCEPT !.classCompilers = Append(@, [hasSuperclass |-> FALSE])],
                   className)
            named(w1) ==
              declare(identifierConstant(w1, w1.parser.previous), w1.parser.previous)
        IN  named(consume(World, "IDENTIFIER", "Expect class name."))
  \/ /\ Running("classDeclaration", 1)
     /\ IF ~check(World, "RIGHT_BRACE") /\ ~check(World, "EOF")
          THEN Call(World, Top, Frame("method", <<>>))
          ELSE LET leave(w1) ==
                     IF classCompilers[Len(classCompilers)].hasSuperclass
                       THEN endScope(w1) ELSE w1
               IN  Return([leave(emitByte(consume(World, "RIGHT_BRACE",
                                                  "Expect '}' after class body."),
                                          OP.OP_POP))
                             EXCEPT !.classCompilers = SubSeq(@, 1, Len(@) - 1)])

funDeclaration ==
  \/ /\ Running("funDeclaration", 0)
     /\ LET body(global) ==
              Call(markInitialized(global.w), Cont(1, [global |-> global.r]),
                   Frame("function", [type |-> "TYPE_FUNCTION"]))
        IN  body(parseVariable(World, "Expect function name"))
  \/ /\ Running("funDeclaration", 1)
     /\ Return(defineVariable(World, Top.v.global))

declaration ==
  \/ /\ Running("declaration", 0)
     /\ IF check(World, "CLASS")
          THEN Call(match(World, "CLASS"), Cont(1, <<>>), Frame("classDeclaration", <<>>))
        ELSE IF check(World, "VAR")
          THEN Call(match(World, "VAR"), Cont(1, <<>>), Frame("varDeclaration", <<>>))
        ELSE IF check(World, "FUN")
          THEN Call(match(World, "FUN"), Cont(1, <<>>), Frame("funDeclaration", <<>>))
        ELSE Call(World, Cont(1, <<>>), Frame("statement", <<>>))
  \/ /\ Running("declaration", 1)
     /\ Return(IF parser.panicMode THEN synchronize(World) ELSE World)

-----------------------------------------------------------------------------
(* The sources compiled *)

BinaryOperators == {"+", "-", "*", "/", "==", "!=", "<", "<=", ">", ">="}

Programs ==
  { <<"print", "1", "+", "2", ";">>,
    <<"var", "a", "=", "3", ";", "\n", "print", "a", ";">>,
    <<"{", "var", "a", "=", "1", ";", "print", "a", ";", "}">>,
    <<"if", "(", "true", ")", "print", "1", ";", "else", "print", "2", ";">>,
    <<"if", "(", "a", ")", "{", "print", "1", ";", "}", "print", "2", ";">>,
    <<"var", "i", "=", "0", ";", "while", "(", "i", "<", "1", ")",
      "i", "=", "i", "+", "1", ";">>,
    <<"while", "(", "true", ")", "{", "var", "a", "=", "1", ";", "}">>,
    <<"fun", "outer", "(", ")", "{", "var", "x", "=", "1", ";", "\n",
      "fun", "inner", "(", ")", "{", "print", "x", ";", "}", "\n",
      "inner", "(", ")", ";", "}", "\n", "outer", "(", ")", ";">>,
    <<"class", "A", "{", "f", "(", ")", "{", "return", "this", ";", "}", "}">>,
    <<"{", "var", "a", ";", "var", "a", ";", "}">>,
    <<"{", "var", "a", "=", "1", ";", "{", "var", "a", "=", "a", ";", "}", "}">>,
    <<"{", "var", "a", "=", "1", ";", "{", "var", "a", "=", "2", ";", "a", ";", "}", "}">>,
    <<"fun", "f", "(", ")", "{", "var", "a", "=", "a", ";", "}">>,
    <<"for", "(", "var", "i", "=", "0", ";", "i", "<", "2", ";",
      "i", "=", "i", "+", "1", ")", "print", "i", ";">>,
    <<"for", "(", ";", ";", ")", "{", "}">>,
    <<"for", "(", "i", "=", "0", ";", "i", ";", ")", "print", "1", ";">>,
    <<"for", "(", ";", ";", "i", ")", "1", ";">>,
    <<"{", "for", "(", "var", "i", ";", ";", ")", "fun", "f", "(", ")", "{", "i", ";", "}", "}">>,
    <<"class", "A", "{", "}", "\n",
      "class", "B", "<", "A", "{", "\n",
      "init", "(", "x", ")", "{", "this", ".", "x", "=", "x", ";", "return", ";", "}", "\n",
      "m", "(", ")", "{", "return", "super", ".", "m", "(", "1", ",", "2", ")", ";", "}", "\n",
      "g", "(", ")", "{", "return", "super", ".", "g", ";", "}", "}">>,
    <<"{", "class", "A", "{", "}", "class", "B", "<", "A", "{",
      "m", "(", ")", "{", "fun", "h", "(", ")", "{", "super", ".", "m", "(", ")", ";",
      "this", ";", "}", "}", "}", "}">>,
    <<"class", "A", "<", "A", "{", "}">>,
    <<"class", "A", "{", "m", "(", ")", "{", "super", ".", "m", "(", ")", ";", "}", "}">>,
    <<"class", "A", "{", "init", "(", ")", "{", "return", "1", ";", "}", "}">>,
    <<"class", "A", "{", ";", "}">>,
    <<"while", "(", "a", ")", "{", "nil", ";", "-", "nil", ";", "}">>,
    <<"if", "(", "a", ")", "{", "nil", ";", "-", "nil", ";", "}">>,
    <<"{", "var", "a", ";", "fun", "f", "(", ")", "{", "var", "b", ";",
      "fun", "g", "(", ")", "{", "a", "=", "b", ";", "a", ";", "}", "}", "}">>,
    <<"fun", "f", "(", "a", ")", "{", "fun", "g", "(", ")", "{", "var", "a", "=", "a", ";",
      "}", "}">>,
    <<"class", "A", "{", "m", "(", ")", "{", "fun", "g", "(", ")", "{", "this", ";", "}",
      "}", "init", "(", ")", "{", "}", "}">>,
    <<"class", "A", "{", "m", "(">>,
    <<"fun", "f", "(", "a", ",", "b", ")", "{", "return", "a", "+", "b", ";", "}", "\n",
      "print", "f", "(", "1", ",", "2", ")", ";">>,
    <<"fun", "a", "(", ")", "{", "var", "x", ";", "var", "y", ";", "\n",
      "fun", "b", "(", ")", "{", "fun", "c", "(", ")", "{",
      "y", "=", "1", ";", "print", "x", "+", "y", ";", "}", "}", "}">>,
    <<"fun", "f", "(", "a", ")", "{", "fun", "g", "(", ")", "{", "a", ";", "a", ";", "}", "}">>,
    <<"{", "var", "a", ";", "{", "var", "b", ";", "fun", "f", "(", ")", "{", "b", ";", "}", "}",
      "{", "var", "c", ";", "fun", "g", "(", ")", "{", "c", ";", "a", ";", "}", "}", "}">>,
    <<"fun", "f", "(", ")", "{", "super", ".", "x", ";", "}">>,
    <<"fun", "f", "(", "a", ",", "a", ")", "{", "}">>,
    <<"fun", "f", "(", "1", ")", "{", "}">>,
    <<"fun", "(", ")", "{", "}">>,
    <<"fun", "f", "(", ")", "{", "return", ";", "print", "1", ";", "}">>,
    <<"super", ".", "x", ";">>,
    <<"this", ";">>,
    <<"this", "=", "1", ";">>,
    <<"return", "1", ";">>,
    <<"return", ";">>,
    <<"print", ";">>,
    <<"var", ";">>,
    <<"var", "1", ";", "print", ";", "print", "2", ";">>,
    <<"1", "+">>,
    <<"@", "print", "1", ";">>,
    <<"@">>,
    <<"print", "@", "1", ";", "\n", "print", ";">>,
    <<"print", "1", "print", "2", ";", "print", ")", ";">>,
    <<"a", ".", "b", ".", "c", "(", ")", ";">>,
    <<"a", ".", "b", "=", "1", ";">>,
    <<"a", ".", "b", "(", "1", ")", "=", "2", ";">>,
    <<"a", "(", ")", "(", "1", ",", "2", ",", "3", ")", ";">>,
    <<"a", "(", "1", ";">>,
    <<"!", "true", "==", "false", ";">>,
    <<"-", "1", "*", "(", "2", "/", "3", ")", ";">>,
    <<"(", "1", ";">>,
    <<"a", "and", "b", "or", "c", ";">>,
    <<"a", "or", "b", "and", "c", "or", "d", ";">>,
    <<"a", "=", "b", "=", "c", ";">>,
    <<"(", "a", ")", "=", "1", ";">>,
    <<"nil", ";", "'s'", ";">>,
    <<"{", "var", "a", "=", "1", ";">>,
    <<"{", "var", "a", ";", "a", "=", "2", ";", "}">>,
    <<"fun", "f", "(", ")", "{">>,
    <<"if", "(", "a", ")", "if", "(", "b", ")", "1", ";", "else", "2", ";">>,
    <<"if", "a", "print", "1", ";">>,
    <<"fun", "f", "(", ")", "{", "if", "(", "a", "and", ")", "1", ";", "else", "2", ";",
      "while", "(", ")", "3", ";", "for", "(", ";", "a", "or", ";", ")", "}">>,
    <<"{", "var", "a", "=", "@", "a", ";", "}">>,
    <<"while", "(", "a", "or", "b", ")", "if", "(", "c", ")", "print", "1", ";">>
  } \cup {<<"a", op, "b", "=", "c", ";">> : op \in BinaryOperators}

\* Every source of at most MaxLen words over Alphabet.
MaxLen == 3

Alphabet == {"a", "=", ";", "var", "{", "fun"}

RECURSIVE Words(_)
Words(n) ==
  IF n = 0 THEN {<<>>}
  ELSE Words(n - 1) \cup {Append(p, x) : p \in Words(n - 1), x \in Alphabet}

Sources == Programs \cup Words(MaxLen)

-----------------------------------------------------------------------------
(* compile(), and the specification *)

unsetToken == Token("<unset>", "", 0)

\* The globals before the first call of compile().
boot ==
  [source |-> <<>>, scanPos |-> 1,
   parser |-> [current |-> unsetToken, previous |-> unsetToken,
               hadError |-> FALSE, panicMode |-> FALSE],
   compilers |-> <<>>, classCompilers |-> <<>>, stderr |-> <<>>]

\* compile() up to its loop: initScanner, initCompiler, the two flags, advance.
compileStart(w, text) ==
  advance([initCompiler([w EXCEPT !.source = text, !.scanPos = 1, !.stderr = <<>>],
                        "TYPE_SCRIPT")
             EXCEPT !.parser.hadError = FALSE, !.parser.panicMode = FALSE])

Init ==
  /\ source = boot.source
  /\ scanPos = boot.scanPos
  /\ parser = boot.parser
  /\ compilers = boot.compilers
  /\ classCompilers = boot.classCompilers
  /\ stderr = boot.stderr
  /\ frames = <<>>
  /\ retval = 0
  /\ result = [returned |-> FALSE, value |-> <<>>]

\* compile(source): called when no compilation is running, any number of
\* times; stderr holds the diagnostics of the running (or last) call.  The
\* value returned is <<>> for NULL and <<function>> otherwise.
compile ==
  \/ /\ frames = <<>>
     /\ \E text \in Sources :
          /\ Commit(compileStart(World, text))
          /\ frames' = <<[Frame("compile", <<>>) EXCEPT !.pc = 1]>>
          /\ retval' = 0
          /\ result' = [returned |-> FALSE, value |-> <<>>]
  \/ /\ Running("compile", 1)
     /\ ~check(World, "EOF")
     /\ Call(World, Top, Frame("declaration", <<>>))
  \/ /\ Running("compile", 1)
     /\ check(World, "EOF")
     /\ LET e == endCompiler(match(World, "EOF"))
        IN  /\ Commit(e.w)
            /\ frames' = <<>>
            /\ result' = [returned |-> TRUE,
                          value |-> IF e.w.parser.hadError THEN <<>> ELSE <<e.r>>]
            /\ UNCHANGED retval

Next ==
  \/ compile \/ declaration \/ statement \/ block
  \/ classDeclaration \/ method \/ funDeclaration \/ function \/ varDeclaration
  \/ expressionStatement \/ printStatement \/ returnStatement
  \/ ifStatement \/ whileStatement \/ forStatement
  \/ parsePrecendence \/ binary \/ unary \/ call \/ argumentList \/ dot
  \/ literal \/ grouping \/ number \/ string \/ or_ \/ and_
  \/ variable \/ namedVariable \/ super_ \/ this_

Spec == Init /\ [][Next]_vars

\* The program runs on: while a compilation is under way, it takes its next
\* step.
SpecLive ==
  Init /\ [][Next]_vars /\ ([]<>(frames = <<>>) \/ []<><<Next>>_vars)

-----------------------------------------------------------------------------
(* Compilations that reach the limits of a function *)

Repeat(words, n) ==
  [i \in 1 .. n * Len(words) |-> words[((i - 1) % Len(words)) + 1]]

Param(i) == "p" \o ToString(i)

\* 256 constants in the script's chunk (the name a and 255 property names),
\* then a function declared in a block.
FullPool ==
  <<"a">> \o Repeat(<<".", "b">>, UINT8_MAX)
    \o <<";", "{", "fun", "f", "(", ")", "{", "}", "}">>

\* f has 256 locals: its slot 0, 254 parameters and g.  g reads the two
\* parameters of o and the parameters of f, 256 variables, and then g.
FullUpvalues ==
  LET n == UINT8_COUNT - 2
  IN  <<"fun", "o", "(", "a", ",", "b", ")", "{", "fun", "f", "(">>
        \o [i \in 1 .. 2 * n - 1 |-> IF i % 2 = 1 THEN Param((i + 1) \div 2) ELSE ","]
        \o <<")", "{", "fun", "g", "(", ")", "{", "a", "+", "b">>
        \o [i \in 1 .. 2 * n |-> IF i % 2 = 1 THEN "+" ELSE Param(i \div 2)]
        \o <<"+", "g", "+", "a", ";", "}", "}", "}">>

\* f is declared with 257 parameters.
TooManyParameters ==
  <<"fun", "f", "(">>
    \o [i \in 1 .. 2 * UINT8_COUNT + 1 |->
          IF i % 2 = 1 THEN Param((i + 1) \div 2) ELSE ","]
    \o <<")", "{", "}">>

\* A block with 255 variables, 256 locals with slot 0, and in it a block that
\* declares one more and then one named like the last of the 255.
TooManyLocals ==
  <<"{">>
    \o [i \in 1 .. 3 * UINT8_MAX |->
          IF i % 3 = 1 THEN "var" ELSE IF i % 3 = 2 THEN Param((i + 1) \div 3) ELSE ";"]
    \o <<"{", "var", "x", "=", "1", ";", "var", Param(UINT8_MAX), ";", "}", "}">>

\* 256 constants in the script's chunk, then a global variable.
FullPoolGlobal ==
  <<"a">> \o Repeat(<<".", "b">>, UINT8_MAX) \o <<";", "var", "x", ";">>

LongSources ==
  {FullPool, FullUpvalues, TooManyParameters, TooManyLocals, FullPoolGlobal}

\* compile() has been called on one of the long sources.
InitLimits ==
  \E text \in LongSources :
    LET w == compileStart(boot, text)
    IN  /\ source = w.source
        /\ scanPos = w.scanPos
        /\ parser = w.parser
        /\ compilers = w.compilers
        /\ classCompilers = w.classCompilers
        /\ stderr = w.stderr
        /\ frames = <<[Frame("compile", <<>>) EXCEPT !.pc = 1]>>
        /\ retval = 0
        /\ result = [returned |-> FALSE, value |-> <<>>]

SpecLimits == (Init \/ InitLimits) /\ [][Next]_vars

-----------------------------------------------------------------------------
(* patchJump() and emitLoop() on chunks of any length *)

\* The distances tried: within JumpSpan of 0, of 256 and of 65536.
JumpSpan == 3

Offsets == 0 .. 3

JumpDistances ==
  {d \in {b + e : b \in {0, UINT8_MAX + 1, UINT16_MAX + 1},
                  e \in 0 - JumpSpan .. JumpSpan} : d >= 0}

\* The script's compiler with a chunk of count bytes, all written at line 1:
\* bytes stands at offset at and OP_NIL everywhere else.
ChunkWorld(count, at, bytes, panicMode) ==
  LET chunk == [initChunk EXCEPT
                  !.count = count,
                  !.code = [i \in 1 .. count |->
                              IF i - 1 \in at .. at + Len(bytes) - 1
                                THEN bytes[i - at] ELSE OP.OP_NIL],
                  !.lines = [i \in 1 .. count |-> 1]]
      w == initCompiler([boot EXCEPT !.parser.previous = Token("SEMICOLON", ";", 1),
                                     !.parser.current = Token("RIGHT_BRACE", "}", 1)],
                        "TYPE_SCRIPT")
  IN  [w EXCEPT !.compilers[1].function.chunk = chunk,
                !.parser.panicMode = panicMode,
                !.parser.hadError = panicMode]

\* A call of patchJump(offset) or emitLoop(loopStart) on such a chunk, made
\* before any call of compile().  The state afterwards keeps the call in
\* frames, the operand written in retval, the parser's flags and the
\* diagnostics; it does not keep the chunk.
Called(fn, v, w, operand) ==
  /\ source' = w.source
  /\ scanPos' = w.scanPos
  /\ parser' = w.parser
  /\ compilers' = <<>>
  /\ classCompilers' = w.classCompilers
  /\ stderr' = w.stderr
  /\ frames' = <<Frame(fn, v)>>
  /\ retval' = operand
  /\ UNCHANGED result

\* emitJump() returned offset, distance bytes followed, patchJump(offset).
patchJumpCall ==
  /\ frames = <<>> /\ ~result.returned
  /\ \E offset \in Offsets \ {0}, distance \in JumpDistances, panicMode \in BOOLEAN :
       \E before \in {ChunkWorld(offset + 2 + distance, offset - 1,
                                 <<OP.OP_JUMP, 255, 255>>, panicMode)} :
         \E w \in {patchJump(before, offset)} :
           Called("patchJump",
                  [offset |-> offset, count |-> offset + 2 + distance,
                   panicMode |-> panicMode],
                  w,
                  currentChunk(w).code[offset + 1] * 256
                    + currentChunk(w).code[offset + 2])

\* emitLoop(loopStart) on a chunk of count bytes.
emitLoopCall ==
  /\ frames = <<>> /\ ~result.returned
  /\ \E loopStart \in Offsets, distance \in JumpDistances, panicMode \in BOOLEAN :
       /\ distance >= 3
       /\ \E before \in {ChunkWorld(loopStart + distance - 3, 0, <<>>, panicMode)} :
            \E w \in {emitLoop(before, loopStart)} :
              LET count == loopStart + distance - 3
              IN  /\ currentChunk(w).count = count + 3
                  /\ currentChunk(w).code[count + 1] = OP.OP_LOOP
                  /\ Called("emitLoop",
                            [loopStart |-> loopStart, count |-> count,
                             panicMode |-> panicMode],
                            w,
                            currentChunk(w).code[count + 2] * 256
                              + currentChunk(w).code[count + 3])

SpecJump == Init /\ [][Next \/ patchJumpCall \/ emitLoopCall]_vars

-----------------------------------------------------------------------------
(* Properties *)

Range(s) == {s[i] : i \in DOMAIN s}

NoDuplicates(s) == Cardinality(Range(s)) = Len(s)

Diagnostics == {stderr[i].message : i \in DOMAIN stderr}

\* C1: every offset emitJump returned in a function is given to patchJump
\* exactly once, on that function's chunk, before endCompiler unlinks the
\* function - also on parse paths that reported errors.  In every chunk under
\* construction patchJump was given only offsets emitJump returned for that
\* chunk, each at most once; and where endCompiler is next (function() after
\* its block, compile() between declarations) every offset was patched.
C1_JumpsPatchedOnce ==
  /\ \A ci \in DOMAIN compilers :
       LET chunk == compilers[ci].function.chunk
       IN  /\ NoDuplicates(chunk.emitted)
           /\ NoDuplicates(chunk.patched)
           /\ Range(chunk.patched) \subseteq Range(chunk.emitted)
  /\ (Running("function", 1) \/ Running("compile", 1)) =>
       Range(currentChunk(World).patched) = Range(currentChunk(World).emitted)

\* A function body that reported an error and emitted several jumps is about
\* to be ended.
C1_Witness ==
  /\ Running("function", 1)
  /\ parser.hadError
  /\ Len(currentChunk(World).emitted) >= 3
  /\ Len(currentChunk(World).patched) >= 3

\* The innermost local of compiler c named like the token (its position in
\* c.locals, slot + 1), or 0.
InnermostLocal(c, name) ==
  LET named == {i \in DOMAIN c.locals : c.locals[i].name.start = name.start}
  IN  IF named = {} THEN 0 ELSE CHOOSE i \in named : \A j \in named : j <= i

OwnInitializer == "Can't read local variable in its own initializer."

\* C5: a local whose depth is -1 is never resolved without a compile error.
\* When namedVariable() looks a name up and the innermost local of that name
\* has depth -1, the step resolves to that local's slot (not an outer local of
\* the name), hadError is true afterwards, and the diagnostic "Can't read
\* local variable in its own initializer." is printed at the name unless
\* panicMode already held.
C5_OwnInitializerIsError ==
  [][Running("namedVariable", 0) =>
       LET c == compilers[Len(compilers)]
           i == InnermostLocal(c, Top.v.name)
       IN  (i # 0 /\ c.locals[i].depth = -1) =>
             /\ parser'.hadError
             /\ ~parser.panicMode =>
                  stderr' = Append(stderr, [line |-> Top.v.name.line,
                                            at |-> Top.v.name.start,
                                            message |-> OwnInitializer])
             /\ \/ /\ Len(frames') = Len(frames)
                   /\ frames'[Len(frames')].fn = "namedVariable"
                   /\ frames'[Len(frames')].v.arg = i - 1
                   /\ frames'[Len(frames')].v.setOp = OP.OP_SET_LOCAL
                \/ /\ Len(frames') < Len(frames)
                   /\ LET code == compilers'[Len(compilers)].function.chunk.code
                      IN  SubSeq(code, Len(code) - 1, Len(code))
                            = <<OP.OP_GET_LOCAL, i - 1>>
  ]_vars

\* `var a = a;` in a scope nested inside one that declares a: the diagnostic
\* has been printed while the inner a is still uninitialized.
C5_Witness ==
  /\ compilers # <<>>
  /\ LET c == compilers[Len(compilers)]
     IN  /\ \E i, j \in DOMAIN c.locals :
               /\ i < j
               /\ c.locals[i].name.start = "a" /\ c.locals[i].depth = 1
               /\ c.locals[j].name.start = "a" /\ c.locals[j].depth = -1
         /\ SubSeq(c.function.chunk.code, Len(c.function.chunk.code) - 1,
                   Len(c.function.chunk.code)) = <<OP.OP_GET_LOCAL, 2>>
  /\ stderr # <<>>
  /\ stderr[Len(stderr)].message = OwnInitializer

\* The value of the two operand bytes at offset o of a chunk, big-endian.
Operand(chunk, o) == chunk.code[o + 1] * 256 + chunk.code[o + 2]

\* The distances patchJump() and emitLoop() computed in a chunk.
Distances(chunk) ==
  {chunk.targets[i] - chunk.patched[i] - 2 : i \in DOMAIN chunk.patched}
    \cup {chunk.loops[i].at + 3 - chunk.loops[i].start : i \in DOMAIN chunk.loops}

\* What a call of patchJump() or emitLoop() kept in the state computed.
CallDistance ==
  IF Top.fn = "patchJump" THEN Top.v.count - Top.v.offset - 2
  ELSE Top.v.count + 3 - Top.v.loopStart

\* C2 as stated: after patchJump(o) the operand at o is count_at_patch - o - 2;
\* emitLoop(s) with its OP_LOOP at p writes (p + 3) - s; and a distance above
\* 65535 comes with an error.
C2_ExactDistance ==
  /\ \A ci \in DOMAIN compilers :
       LET chunk == compilers[ci].function.chunk
       IN  /\ \A i \in DOMAIN chunk.patched :
                Operand(chunk, chunk.patched[i])
                  = chunk.targets[i] - chunk.patched[i] - 2
           /\ \A i \in DOMAIN chunk.loops :
                Operand(chunk, chunk.loops[i].at + 1)
                  = chunk.loops[i].at + 3 - chunk.loops[i].start
           /\ (\E d \in Distances(chunk) : d > UINT16_MAX) => parser.hadError
  /\ (Running("patchJump", 0) \/ Running("emitLoop", 0)) =>
       /\ retval = CallDistance
       /\ CallDistance > UINT16_MAX => parser.hadError

\* C2: jump operands are 16-bit big-endian values holding the distance
\* modulo 65536.  After patchJump(o) the operand at o is count_at_patch - o - 2
\* when that is at most 65535, so that o + 2 + operand is the index of the
\* next byte emitted; emitLoop(s) with its OP_LOOP at p writes (p + 3) - s when
\* that is at most 65535, so that the address past the operand minus the
\* operand is s.  A distance above 65535 is stored without its high bits and
\* error() is called: hadError is true, and the diagnostic is printed unless
\* panicMode was set.  A distance that fits reports nothing.
C2_DistanceMod65536 ==
  /\ \A ci \in DOMAIN compilers :
       LET chunk == compilers[ci].function.chunk
       IN  /\ \A i \in DOMAIN chunk.code : chunk.code[i] \in 0 .. 255
           /\ \A i \in DOMAIN chunk.patched :
                LET d == chunk.targets[i] - chunk.patched[i] - 2
                IN  /\ Operand(chunk, chunk.patched[i]) = d % (UINT16_MAX + 1)
                    /\ d <= UINT16_MAX =>
                         chunk.patched[i] + 2 + Operand(chunk, chunk.patched[i])
                           = chunk.targets[i]
           /\ \A i \in DOMAIN chunk.loops :
                LET p == chunk.loops[i].at
                    d == p + 3 - chunk.loops[i].start
                IN  /\ chunk.code[p + 1] = OP.OP_LOOP
                    /\ Operand(chunk, p + 1) = d % (UINT16_MAX + 1)
                    /\ d <= UINT16_MAX =>
                         (p + 3) - Operand(chunk, p + 1) = chunk.loops[i].start
           /\ (\E d \in Distances(chunk) : d > UINT16_MAX) => parser.hadError
  /\ (Running("patchJump", 0) \/ Running("emitLoop", 0)) =>
       /\ retval = CallDistance % (UINT16_MAX + 1)
       /\ CallDistance <= UINT16_MAX =>
            /\ retval = CallDistance
            /\ parser.hadError = Top.v.panicMode
            /\ stderr = <<>>
       /\ CallDistance > UINT16_MAX =>
            /\ parser.hadError /\ parser.panicMode
            /\ Top.v.panicMode => stderr = <<>>
            /\ ~Top.v.panicMode =>
                 Diagnostics = {IF Top.fn = "patchJump" THEN "Cannot jump this far !"
                                ELSE "Loop body too large."}

\* patchJump() was called for a jump of 65536 bytes: the operand holds 0 and
\* the diagnostic is printed.
C2_Witness ==
  /\ Running("patchJump", 0)
  /\ CallDistance = UINT16_MAX + 1
  /\ retval = 0
  /\ "Cannot jump this far !" \in Diagnostics

\* The functions enclosing compiler ci that hold a local named like the token.
Declaring(cs, ci, name) == {j \in 1 .. ci - 1 : InnermostLocal(cs[j], name) # 0}

\* Descriptor r of function j starts a chain of descriptors, one in each
\* function from j out to a + 1, that ends at local slot of function a: the
\* descriptor of a + 1 has isLocal and that slot, every one further in has
\* no isLocal and the index of the next-outer function's descriptor.
RECURSIVE UpvalueChain(_, _, _, _, _)
UpvalueChain(cs, j, r, a, slot) ==
  /\ r >= 0
  /\ r < Len(cs[j].upvalues)
  /\ LET d == cs[j].upvalues[r + 1]
     IN  IF j = a + 1
           THEN d.isLocal /\ d.index = slot
           ELSE ~d.isLocal /\ UpvalueChain(cs, j - 1, d.index, a, slot)

\* The upvalue index a namedVariable() step resolved its name to, or -1.
ResolvedUpvalue ==
  LET f == frames'[Len(frames')]
      code == compilers'[Len(compilers)].function.chunk.code
  IN  IF /\ Len(frames') = Len(frames)
         /\ f.fn = "namedVariable"
         /\ f.v.setOp = OP.OP_SET_UPVALUE
        THEN f.v.arg
      ELSE IF /\ Len(frames') < Len(frames)
              /\ code[Len(code) - 1] = OP.OP_GET_UPVALUE
        THEN code[Len(code)]
      ELSE -1

HasRoom(cs, j, a, slot) ==
  \/ Len(cs[j].upvalues) < UINT8_COUNT
  \/ \E r \in 0 .. Len(cs[j].upvalues) - 1 : UpvalueChain(cs, j, r, a, slot)

ClosureBytes ==
  LET ci == Len(compilers) - 1
  IN  SubSeq(compilers'[ci].function.chunk.code,
             compilers[ci].function.chunk.count + 1,
             compilers'[ci].function.chunk.count)

\* The trailer of the closure: 2k bytes, is_local then index for each
\* descriptor of the function ended, k its recorded upvalueCount.
TrailerOK ==
  LET inner == compilers[Len(compilers)]
      k == Len(inner.upvalues)
  IN  /\ inner.function.upvalueCount = k
      /\ Len(ClosureBytes) = 2 + 2 * k
      /\ ClosureBytes[1] = OP.OP_CLOSURE
      /\ \A i \in 0 .. k - 1 :
           /\ ClosureBytes[3 + 2 * i] = (IF inner.upvalues[i + 1].isLocal THEN 1 ELSE 0)
           /\ ClosureBytes[4 + 2 * i] = inner.upvalues[i + 1].index

\* The operand of OP_CLOSURE is the index, in the enclosing chunk's pool, of
\* the function ended: its name, arity and upvalueCount, its code the code
\* compiled so far and the return endCompiler() adds.
IndexOfFunction ==
  LET inner == compilers[Len(compilers)]
      constants == compilers'[Len(compilers) - 1].function.chunk.constants
      index == ClosureBytes[2]
  IN  /\ index + 1 \in DOMAIN constants
      /\ constants[index + 1].kind = "FUNCTION"
      /\ constants[index + 1].val.name = inner.function.name
      /\ constants[index + 1].val.arity = inner.function.arity
      /\ constants[index + 1].val.upvalueCount = Len(inner.upvalues)
      /\ SubSeq(constants[index + 1].val.chunk.code, 1, inner.function.chunk.count)
           = inner.function.chunk.code

\* C4 as stated: function() emits OP_CLOSURE, the constant index of the
\* compiled function, and 2k trailer bytes.
C4_Closure ==
  [][Running("function", 1) => TrailerOK /\ IndexOfFunction]_vars

\* C4: function() emits OP_CLOSURE, then the constant index of the compiled
\* function - or 0, after error() was called, when the enclosing chunk's pool
\* already held 256 constants - and then exactly 2k trailer bytes, is_local
\* and index of descriptor i at positions 2i and 2i+1, k the function's
\* recorded upvalueCount.
C4_ClosureOrFullPool ==
  [][Running("function", 1) =>
       /\ TrailerOK
       /\ IF Len(compilers[Len(compilers) - 1].function.chunk.constants) < UINT8_COUNT
            THEN IndexOfFunction
            ELSE ClosureBytes[2] = 0 /\ parser'.hadError
  ]_vars

\* The chunk of f ends with the closure of g, which has two upvalues: a
\* through f's descriptor, and f's local b.
C4_Witness ==
  /\ Len(compilers) = 2
  /\ LET chunk == compilers[2].function.chunk
     IN  /\ chunk.count >= 6
         /\ SubSeq(chunk.code, chunk.count - 5, chunk.count)
              = <<OP.OP_CLOSURE, 0, 0, 0, 1, 1>>
         /\ chunk.constants[1].kind = "FUNCTION"
         /\ chunk.constants[1].val.upvalueCount = 2

AssignToBinary == {<<"a", op, "b", "=", "c", ";">> : op \in BinaryOperators}

\* C6: for every binary operator op, compiling `x op y = z;` reports the
\* diagnostic "Invalid assignment target." and leaves hadError true.
C6_InvalidAssignmentTarget ==
  (result.returned /\ source \in AssignToBinary) =>
     /\ parser.hadError
     /\ "Invalid assignment target." \in Diagnostics

\* C7: compile() returns a function exactly when no error was reported during
\* that compilation.  hadError is true exactly when a diagnostic of this
\* compilation has been printed (so it is false when parsing starts and never
\* goes back to false), and the result is NULL exactly when hadError is true
\* at the end; otherwise it is the script function.
C7_FunctionIffNoError ==
  /\ (frames # <<>> \/ result.returned) => (parser.hadError <=> stderr # <<>>)
  /\ result.returned =>
       /\ (result.value = <<>>) <=> parser.hadError
       /\ result.value # <<>> =>
            /\ result.value[1].name = <<>>
            /\ result.value[1].chunk.count > 0

\* A compilation that reported two errors has returned NULL.
C7_Witness ==
  /\ result.returned
  /\ result.value = <<>>
  /\ Len(stderr) >= 2

SynchronizePoints == {"CLASS", "FUN", "VAR", "FOR", "IF", "WHILE", "PRINT", "RETURN"}

\* C8: panic mode suppresses cascading diagnostics.  During a compilation a
\* step prints at most one diagnostic and printing one sets panicMode; while
\* panicMode is set a step other than declaration()'s call of synchronize()
\* prints nothing, leaves hadError alone and leaves panicMode set; and
\* synchronize() returns only with current at EOF, previous a SEMICOLON, or
\* current one of class, fun, var, for, if, while, print, return.
C8_PanicMode ==
  [][frames # <<>> =>
       /\ Len(stderr') <= Len(stderr) + 1
       /\ SubSeq(stderr', 1, Len(stderr)) = stderr
       /\ stderr' # stderr => parser'.panicMode /\ parser'.hadError
       /\ (parser.panicMode /\ ~Running("declaration", 1)) =>
            /\ stderr' = stderr
            /\ parser'.panicMode
            /\ parser'.hadError = parser.hadError
       /\ (parser.panicMode /\ Running("declaration", 1)) =>
            \/ parser'.current.type = "EOF"
            \/ parser'.previous.type = "SEMICOLON"
            \/ parser'.current.type \in SynchronizePoints
       /\ (~parser.panicMode /\ parser'.panicMode) => Len(stderr') = Len(stderr) + 1
  ]_vars

\* After a first diagnostic and a synchronize(), a second diagnostic was
\* printed and the parser is panicking again.
C8_Witness ==
  /\ frames # <<>>
  /\ parser.panicMode
  /\ Len(stderr) >= 2
  /\ ~Running("declaration", 1)

-----------------------------------------------------------------------------
(* Stack effects of the code emitted for statements and expressions *)

\* The bytes of the instruction at offset o of a chunk: the opcode and its
\* operands; OP_CLOSURE is followed by two bytes per upvalue of its function.
InstructionLength(chunk, o) ==
  LET len(op) ==
        IF op \in {OP.OP_CONSTANT, OP.OP_GET_LOCAL, OP.OP_SET_LOCAL, OP.OP_GET_GLOBAL,
                   OP.OP_DEFINE_GLOBAL, OP.OP_SET_GLOBAL, OP.OP_GET_UPVALUE,
                   OP.OP_SET_UPVALUE, OP.OP_GET_PROPERTY, OP.OP_SET_PROPERTY,
                   OP.OP_GET_SUPER, OP.OP_CALL, OP.OP_CLASS, OP.OP_METHOD}
          THEN 2
        ELSE IF op \in {OP.OP_JUMP, OP.OP_JUMP_IF_FALSE, OP.OP_LOOP, OP.OP_INVOKE,
                        OP.OP_SUPER_INVOKE}
          THEN 3
        ELSE IF op = OP.OP_CLOSURE
          THEN 2 + 2 * chunk.constants[chunk.code[o + 2] + 1].val.upvalueCount
        ELSE 1
  IN  len(chunk.code[o + 1])

\* The stack effect the instruction table gives the instruction at offset o:
\* globals are read +1, defined -1, set 0; a call consumes argc + 1 values
\* and pushes one; OP_RETURN pops the value it returns.
TableEffect(chunk, o) ==
  LET effect(op) ==
        IF op \in {OP.OP_CONSTANT, OP.OP_NIL, OP.OP_TRUE, OP.OP_FALSE, OP.OP_GET_LOCAL,
                   OP.OP_GET_GLOBAL, OP.OP_GET_UPVALUE, OP.OP_CLOSURE, OP.OP_CLASS}
          THEN 1
        ELSE IF op \in {OP.OP_POP, OP.OP_DEFINE_GLOBAL, OP.OP_SET_PROPERTY, OP.OP_EQUAL,
                        OP.OP_GREATER, OP.OP_LESS, OP.OP_ADD, OP.OP_SUBSTRACT,
                        OP.OP_MULTIPLY, OP.OP_DIVIDE, OP.OP_PRINT, OP.OP_CLOSE_UPVALUE,
                        OP.OP_RETURN, OP.OP_INHERIT, OP.OP_METHOD}
          THEN -1
        ELSE IF op = OP.OP_CALL THEN -chunk.code[o + 2]
        ELSE IF op \in {OP.OP_INVOKE, OP.OP_SUPER_INVOKE} THEN -chunk.code[o + 3]
        ELSE 0
  IN  effect(chunk.code[o + 1])

\* The table's effects, but OP_GET_SUPER and OP_SUPER_INVOKE also consume the
\* superclass that super_() pushes before them.
StackEffect(chunk, o) ==
  IF chunk.code[o + 1] \in {OP.OP_GET_SUPER, OP.OP_SUPER_INVOKE}
    THEN TableEffect(chunk, o) - 1
    ELSE TableEffect(chunk, o)

\* The sum of the table's effects over the instructions from offset o up to
\* offset end, in the order of emission.
RECURSIVE LinearEffect(_, _, _)
LinearEffect(chunk, o, end) ==
  IF o >= end THEN 0
  ELSE TableEffect(chunk, o) + LinearEffect(chunk, o + InstructionLength(chunk, o), end)

\* The places control goes to from offset p[1] reached with height p[2]: past
\* the instruction, to the target of its jump, or nowhere after OP_RETURN and
\* at the end.
Successors(chunk, end, p) ==
  LET after(op, o, h, operand) ==
        IF op = OP.OP_RETURN THEN {}
        ELSE IF op = OP.OP_JUMP THEN {<<o + 3 + operand, h>>}
        ELSE IF op = OP.OP_JUMP_IF_FALSE THEN {<<o + 3, h>>, <<o + 3 + operand, h>>}
        ELSE IF op = OP.OP_LOOP THEN {<<o + 3 - operand, h>>}
        ELSE {<<o + InstructionLength(chunk, o), h + StackEffect(chunk, o)>>}
  IN  IF p[1] < 0 \/ p[1] >= end THEN {}
      ELSE after(chunk.code[p[1] + 1], p[1], p[2],
                 IF p[1] + 3 <= Len(chunk.code)
                   THEN chunk.code[p[1] + 2] * 256 + chunk.code[p[1] + 3] ELSE 0)

\* The offsets and heights reached from the set reached in at most n steps.
RECURSIVE Reached(_, _, _, _)
Reached(chunk, end, reached, n) ==
  LET grow(more) ==
        IF n = 0 \/ more \subseteq reached THEN reached
        ELSE Reached(chunk, end, reached \cup more, n - 1)
  IN  grow(UNION {Successors(chunk, end, p) : p \in reached})

\* Every control-flow path through the instructions from offset start up to
\* the end of the chunk stays there, reaches each instruction with one
\* height, reaches OP_RETURN with one value, and leaves with height net.
PathEffect(chunk, start, net) ==
  LET balanced(reached) ==
        /\ \A p \in reached : p[1] \in start .. chunk.count
        /\ \A p, q \in reached : p[1] = q[1] => p[2] = q[2]
        /\ \A p \in reached :
             /\ p[1] = chunk.count => p[2] = net
             /\ p[1] < chunk.count /\ chunk.code[p[1] + 1] = OP.OP_RETURN => p[2] = 1
  IN  balanced(Reached(chunk, chunk.count, {<<start, 0>>}, chunk.count - start + 1))

StatementShapes ==
  {"printStatement", "expressionStatement", "statement", "ifStatement",
   "whileStatement", "forStatement", "returnStatement"}

\* The step is the return, with no error reported so far, of one of the
\* functions fns.
Returns(fns) ==
  /\ frames # <<>>
  /\ Top.fn \in fns
  /\ frames' = Below
  /\ ~parser'.hadError

\* The chunk a returning function leaves.
ChunkLeft == compilers'[Len(compilers')].function.chunk

\* C9 as stated: the per-opcode stack effects of the instruction table,
\* summed over the bytes emitted for it, are 0 for every statement (print,
\* expression statement, block, if, while, for, return) and +1 for every
\* expression.
C9_LinearStackEffect ==
  [][/\ Returns(StatementShapes) => LinearEffect(ChunkLeft, Top.at, ChunkLeft.count) = 0
     /\ Returns({"parsePrecendence"}) =>
          LinearEffect(ChunkLeft, Top.at, ChunkLeft.count) = 1]_vars

\* C9: along every control-flow path through the bytes emitted for it, the
\* stack effects add up to 0 for every statement (print, expression
\* statement, block, if, while, for, return) and to +1 for every expression,
\* every OP_RETURN being reached with the one value it returns.
C9_PathStackEffect ==
  [][/\ Returns(StatementShapes) => PathEffect(ChunkLeft, Top.at, 0)
     /\ Returns({"parsePrecendence"}) => PathEffect(ChunkLeft, Top.at, 1)]_vars

\* A while statement has just returned to declaration() with no error: its
\* loop and its patched exit jump are the last instructions of the chunk.
C9_Witness ==
  /\ Running("declaration", 1)
  /\ ~parser.hadError
  /\ currentChunk(World).loops # <<>>
  /\ currentChunk(World).patched # <<>>
  /\ currentChunk(World).code[currentChunk(World).count] = OP.OP_POP
  /\ currentChunk(World).targets[Len(currentChunk(World).targets)] =
       currentChunk(World).count - 1
  /\ currentChunk(World).loops[Len(currentChunk(World).loops)].at =
       currentChunk(World).count - 4


-----------------------------------------------------------------------------
(* The limits of a function: parameters, locals, upvalues *)

TooManyParametersMessage == "Can't have more than 255 parameters."

\* C11 as stated: in every reachable state the arity of a function being
\* compiled is at most 255.
C11_ArityAtMost255 ==
  \A ci \in DOMAIN compilers : compilers[ci].function.arity <= 255

\* C11: every turn of the parameter loop adds one to the arity, whatever it
\* was, and a turn that takes it above 255 calls errorAtCurrent(): hadError is
\* true afterwards, and the diagnostic "Can't have more than 255 parameters."
\* is printed at the current token unless panicMode was set.  So an arity
\* above 255 is found only in a compilation that has reported an error.
C11_ArityAbove255IsError ==
  [][/\ \A ci \in DOMAIN compilers' :
          compilers'[ci].function.arity > 255 => parser'.hadError
     /\ Running("function", 2) =>
          LET arity == current(World).function.arity + 1
          IN  /\ compilers'[Len(compilers')].function.arity = arity
              /\ arity <= 255 =>
                   \A i \in Len(stderr) + 1 .. Len(stderr') :
                     stderr'[i].message # TooManyParametersMessage
              /\ arity > 255 /\ ~parser.panicMode =>
                   /\ Len(stderr') > Len(stderr)
                   /\ stderr'[Len(stderr) + 1] =
                        [line |-> parser.current.line,
                         at |-> IF parser.current.type = "EOF" THEN "end"
                                ELSE parser.current.start,
                         message |-> TooManyParametersMessage]
  ]_vars

\* A function with 257 parameters is being compiled: its arity is 257 and the
\* diagnostic was printed, once.
C11_Witness ==
  /\ Running("function", 3)
  /\ current(World).function.arity = UINT8_COUNT + 1
  /\ parser.hadError
  /\ Len(stderr) = 1
  /\ stderr[1].message = TooManyParametersMessage
  /\ stderr[1].at = Param(UINT8_COUNT)

TooManyLocalsMessage == "Too many local variables in function (max 256)."

TooManyUpvaluesMessage == "Too many closure variable in function."

\* C12: every function compiler has at most 256 locals and at most 256
\* upvalue descriptors, upvalueCount of them.  A variable declared in a
\* function that has 256 locals leaves the locals as they are and reports an
\* error: hadError is true, and "Too many local variables in function (max
\* 256)." is printed unless panicMode was set before addLocal().  A name
\* resolved through a function that has 256 descriptors leaves that table as
\* it is, and reports "Too many closure variable in function." in the same
\* way when the table holds no descriptor for the variable.
C12_TablesBounded ==
  [][/\ \A ci \in DOMAIN compilers' :
          /\ Len(compilers'[ci].locals) <= UINT8_COUNT
          /\ Len(compilers'[ci].upvalues) <= UINT8_COUNT
          /\ compilers'[ci].function.upvalueCount = Len(compilers'[ci].upvalues)
     /\ (/\ Running("varDeclaration", 0)
         /\ current(World).scopeDepth > 0
         /\ Len(current(World).locals) = UINT8_COUNT
         /\ Len(frames') > Len(frames)) =>
          /\ compilers' = compilers
          /\ parser'.hadError
          /\ (~parser.panicMode /\ check(World, "IDENTIFIER")
                /\ InnermostLocal(current(World), parser.current) = 0) =>
               stderr' = Append(stderr, [line |-> parser.current.line,
                                         at |-> parser.current.start,
                                         message |-> TooManyLocalsMessage])
     /\ Running("namedVariable", 0) =>
          LET ci == Len(compilers)
              name == Top.v.name
              declaring == Declaring(compilers, ci, name)
          IN  /\ \A j \in 1 .. ci :
                   Len(compilers[j].upvalues) = UINT8_COUNT =>
                     /\ compilers'[j].upvalues = compilers[j].upvalues
                     /\ compilers'[j].function.upvalueCount = UINT8_COUNT
              /\ (InnermostLocal(compilers[ci], name) = 0 /\ declaring # {}) =>
                   LET a == CHOOSE j \in declaring : \A k \in declaring : k <= j
                       slot == InnermostLocal(compilers[a], name) - 1
                   IN  (\E j \in a + 1 .. ci : ~HasRoom(compilers, j, a, slot)) =>
                         /\ parser'.hadError
                         /\ ~parser.panicMode =>
                              /\ Len(stderr') = Len(stderr) + 1
                              /\ stderr'[Len(stderr')].message = TooManyUpvaluesMessage
  ]_vars

\* The 257th local of a function was declared: the function still has 256
\* locals and the diagnostic is the last one printed.
C12_Witness ==
  /\ Running("varDeclaration", 1)
  /\ Len(current(World).locals) = UINT8_COUNT
  /\ parser.previous.start = "1"
  /\ stderr # <<>>
  /\ stderr[Len(stderr)].message = TooManyLocalsMessage
  /\ stderr[Len(stderr)].at = "x"

-----------------------------------------------------------------------------
(* Globals and locals *)

\* The last n bytes of a chunk.
LastBytes(chunk, n) == SubSeq(chunk.code, chunk.count - n + 1, chunk.count)

\* The variable a declaration names: the identifier consume() takes, or the
\* previous token when there is none.
DeclaredName ==
  IF check(World, "IDENTIFIER") THEN parser.current.start ELSE parser.previous.start

\* g is the index of a constant of the chunk that holds the name.
IndexOfName(before, after, name, g) ==
  /\ g + 1 \in DOMAIN after.constants
  /\ after.constants[g + 1] = OBJ_VAL("STRING", name)

\* g is the index of the constant identifierConstant() added for the name, or
\* 0, after an error, when the pool held 256 constants already.
IndexOfNameOrFullPool(before, after, name, g) ==
  IF Len(before.constants) < UINT8_COUNT
    THEN g = Len(before.constants) /\ IndexOfName(before, after, name, g)
    ELSE g = 0 /\ parser'.hadError

\* A step of a declaration at scopeDepth 0 leaves the locals alone, and the
\* operand of its OP_DEFINE_GLOBAL is the index the name was given.
GlobalDeclared(Index(_, _, _, _)) ==
  LET ci == Len(compilers)
      before == compilers[ci].function.chunk
      after == compilers'[ci].function.chunk
      global == frames'[Len(frames)].v.global
  IN  (frames # <<>> /\ compilers # <<>> /\ compilers[ci].scopeDepth = 0) =>
        /\ Running("varDeclaration", 0) =>
             /\ compilers'[ci].locals = compilers[ci].locals
             /\ IF Len(frames') > Len(frames)
                  THEN Index(before, after, DeclaredName, global)
                  ELSE /\ LastBytes(after, 3)[1] = OP.OP_NIL
                       /\ LastBytes(after, 3)[2] = OP.OP_DEFINE_GLOBAL
                       /\ Index(before, after, DeclaredName, LastBytes(after, 3)[3])
        /\ Running("varDeclaration", 1) =>
             /\ compilers'[ci].locals = compilers[ci].locals
             /\ LastBytes(after, 2) = <<OP.OP_DEFINE_GLOBAL, Top.v.global>>
        /\ Running("funDeclaration", 0) =>
             /\ compilers'[ci].locals = compilers[ci].locals
             /\ Index(before, after, DeclaredName, global)
        /\ Running("funDeclaration", 1) =>
             /\ compilers'[ci].locals = compilers[ci].locals
             /\ LastBytes(after, 2) = <<OP.OP_DEFINE_GLOBAL, Top.v.global>>
        /\ Running("classDeclaration", 0) =>
             /\ SubSeq(after.code, Top.at + 1, Top.at + 1) = <<OP.OP_CLASS>>
             /\ SubSeq(after.code, Top.at + 3, Top.at + 3) = <<OP.OP_DEFINE_GLOBAL>>
             /\ after.code[Top.at + 2] = after.code[Top.at + 4]
             /\ Index(before, after, DeclaredName, after.code[Top.at + 2])

\* No function compiler at scopeDepth 0 holds a local beyond slot 0.
NoLocalAtTopLevel ==
  \A ci \in DOMAIN compilers' :
    compilers'[ci].scopeDepth = 0 => Len(compilers'[ci].locals) = 1

\* C13 as stated: at scopeDepth 0 there is no local beyond slot 0, a
\* declaration leaves the locals alone, and the name is bound by an
\* OP_DEFINE_GLOBAL whose operand is the constant index of the name.
C13_GlobalsByName ==
  [][NoLocalAtTopLevel /\ GlobalDeclared(IndexOfName)]_vars

\* C13: the same, the operand of OP_DEFINE_GLOBAL being the constant index
\* of the name when the chunk's pool held fewer than 256 constants, and 0,
\* after error() was called, when it held 256 already.
C13_GlobalsByNameOrFullPool ==
  [][NoLocalAtTopLevel /\ GlobalDeclared(IndexOfNameOrFullPool)]_vars

\* `var a = 3;` was compiled at top level: the script has its slot 0 only and
\* its chunk ends with OP_DEFINE_GLOBAL and the index of the constant "a".
C13_Witness ==
  /\ Running("declaration", 1)
  /\ Len(compilers) = 1
  /\ ~parser.hadError
  /\ compilers[1].scopeDepth = 0
  /\ Len(compilers[1].locals) = 1
  /\ compilers[1].function.chunk.count >= 4
  /\ LastBytes(compilers[1].function.chunk, 4) = <<OP.OP_CONSTANT, 1, OP.OP_DEFINE_GLOBAL, 0>>
  /\ compilers[1].function.chunk.constants[1] = OBJ_VAL("STRING", "a")

AlreadyDeclaredMessage == "Already a variable with this name in this scope."

\* The step calls declareVariable() at scopeDepth > 0.
Declares ==
  /\ frames # <<>>
  /\ \/ Running("varDeclaration", 0) \/ Running("funDeclaration", 0)
     \/ Running("function", 2) \/ Running("classDeclaration", 0)
  /\ current(World).scopeDepth > 0

\* Nothing in the step calls error() before declareVariable() does.
DeclaresFirst ==
  /\ ~parser.panicMode
  /\ check(World, "IDENTIFIER")
  /\ Running("function", 2) => current(World).function.arity < 255
  /\ Running("classDeclaration", 0) =>
       Len(currentChunk(World).constants) < UINT8_COUNT

\* The locals declared since the beginScope() of the innermost open scope.
InnermostScope(c) == Len(c.marks[Len(c.marks)]) + 1 .. Len(c.locals)

\* C14: declareVariable() at scopeDepth > 0 reports "Already a variable with
\* this name in this scope." if and only if a local of that name was declared
\* in the innermost open scope (the parameters and the top level of a
\* function body being one scope).  The diagnostic is printed only when such
\* a local exists; when one exists hadError is true afterwards, and the
\* diagnostic is printed at the name unless panicMode was set by then.
C14_DuplicateIffSameScope ==
  [][Declares =>
       LET c == current(World)
           duplicate == \E i \in InnermostScope(c) : c.locals[i].name.start = DeclaredName
           printed == \E i \in Len(stderr) + 1 .. Len(stderr') :
                        stderr'[i].message = AlreadyDeclaredMessage
       IN  /\ printed => duplicate
           /\ duplicate => parser'.hadError
           /\ (duplicate /\ DeclaresFirst) =>
                /\ Len(stderr') > Len(stderr)
                /\ stderr'[Len(stderr) + 1] =
                     [line |-> parser.current.line, at |-> DeclaredName,
                      message |-> AlreadyDeclaredMessage]
  ]_vars

-----------------------------------------------------------------------------
(* Chunks *)

\* C15: code and lines of a chunk have the same length, count.  A step
\* appends as many lines as bytes, leaves every line entry it found as it is,
\* and changes a byte it found only at the two operand bytes of an offset
\* given to patchJump() in that step.
C15_CodeAndLines ==
  [][\A ci \in DOMAIN compilers' :
       LET after == compilers'[ci].function.chunk
       IN  /\ Len(after.code) = after.count
           /\ Len(after.lines) = after.count
           /\ (frames # <<>> /\ ci \in DOMAIN compilers) =>
                LET before == compilers[ci].function.chunk
                    patches == {after.patched[i] :
                                  i \in Len(before.patched) + 1 .. Len(after.patched)}
                IN  /\ after.count >= before.count
                    /\ SubSeq(after.lines, 1, before.count) = before.lines
                    /\ \A i \in 1 .. before.count :
                         after.code[i] # before.code[i] =>
                           \E o \in patches : i \in {o + 1, o + 2}
  ]_vars

\* A chunk holds two patched jumps and bytes appended after the patches.
C15_Witness ==
  /\ compilers # <<>>
  /\ Len(currentChunk(World).patched) >= 2
  /\ currentChunk(World).count > currentChunk(World).targets[2]
  /\ Len(currentChunk(World).lines) = currentChunk(World).count
  /\ Len(currentChunk(World).code) = currentChunk(World).count
  /\ Operand(currentChunk(World), currentChunk(World).patched[2]) # UINT16_MAX

-----------------------------------------------------------------------------
(* Scopes *)

\* The step ends with a call of endScope(), and nothing before it in the
\* step touches the locals.
EndsScope ==
  \/ Running("statement", 1)
  \/ Running("forStatement", 5)
  \/ /\ Running("classDeclaration", 1)
     /\ check(World, "RIGHT_BRACE") \/ check(World, "EOF")
     /\ classCompilers[Len(classCompilers)].hasSuperclass

\* C16: endScope() takes one from scopeDepth and removes exactly the locals
\* whose depth exceeds the new scopeDepth, the top of the stack first, with
\* one byte for each: OP_CLOSE_UPVALUE if the local is captured, OP_POP
\* otherwise.  The locals left are the others, in their order, and at the end
\* of a block statement, where the step is endScope() alone, no other byte is
\* emitted.
C16_EndScope ==
  [][EndsScope =>
       LET ci == Len(compilers)
           c == compilers[ci]
           after == compilers'[ci]
           depth == c.scopeDepth - 1
           removed == {i \in DOMAIN c.locals : c.locals[i].depth > depth}
           k == Cardinality(removed)
           nth(i) == CHOOSE j \in removed : Cardinality({m \in removed : m > j}) = i - 1
           bytes == [i \in 1 .. k |-> IF c.locals[nth(i)].isCaptured
                                       THEN OP.OP_CLOSE_UPVALUE ELSE OP.OP_POP]
           kept(l) == ~(l.depth > depth)
       IN  /\ after.scopeDepth = depth
           /\ after.locals = SelectSeq(c.locals, kept)
           /\ after.function.chunk.count >= c.function.chunk.count + k
           /\ LastBytes(after.function.chunk, k) = bytes
           /\ Running("statement", 1) =>
                after.function.chunk.code = c.function.chunk.code \o bytes
  ]_vars

\* A block that declared a captured variable and a function has ended: its
\* two locals are gone, with an OP_POP and then an OP_CLOSE_UPVALUE.
C16_Witness ==
  /\ Running("declaration", 1)
  /\ ~parser.hadError
  /\ current(World).scopeDepth = 1
  /\ Len(current(World).locals) = 2
  /\ currentChunk(World).count >= 2
  /\ LastBytes(currentChunk(World), 2) = <<OP.OP_POP, OP.OP_CLOSE_UPVALUE>>

\* C17: addUpvalue() is idempotent.  No upvalue table holds two descriptors
\* with the same index and isLocal; and a name that resolves to a variable
\* for which the function already holds a descriptor resolves to that
\* descriptor's index and leaves every upvalue table, and every upvalueCount,
\* as it was.
C17_AddUpvalueIdempotent ==
  [][/\ \A ci \in DOMAIN compilers' : NoDuplicates(compilers'[ci].upvalues)
     /\ Running("namedVariable", 0) =>
          LET ci == Len(compilers)
              name == Top.v.name
              declaring == Declaring(compilers, ci, name)
          IN  (InnermostLocal(compilers[ci], name) = 0 /\ declaring # {}) =>
                LET a == CHOOSE j \in declaring : \A k \in declaring : k <= j
                    slot == InnermostLocal(compilers[a], name) - 1
                IN  \A r \in 0 .. Len(compilers[ci].upvalues) - 1 :
                      UpvalueChain(compilers, ci, r, a, slot) =>
                        /\ ResolvedUpvalue = r
                        /\ \A j \in 1 .. ci :
                             /\ compilers'[j].upvalues = compilers[j].upvalues
                             /\ compilers'[j].function.upvalueCount
                                  = compilers[j].function.upvalueCount
  ]_vars

\* g has read the parameter a of f twice: both reads are of upvalue 0, the
\* only descriptor of g.
C17_Witness ==
  /\ Len(compilers) = 3
  /\ compilers[3].upvalues = <<Upvalue(1, TRUE)>>
  /\ compilers[3].function.upvalueCount = 1
  /\ compilers[3].function.chunk.count >= 5
  /\ LastBytes(compilers[3].function.chunk, 5)
       = <<OP.OP_GET_UPVALUE, 0, OP.OP_POP, OP.OP_GET_UPVALUE, 0>>

\* C18: a block statement restores the locals stack.  When the endScope()
\* that ends a block returns, scopeDepth and localCount are what they were at
\* the block's beginScope(), and the locals are the ones of then, with their
\* names and depths - on every parse path, also after errors in the block.
C18_BlockRestoresLocals ==
  [][Running("statement", 1) =>
       LET c == current(World)
           mark == c.marks[Len(c.marks)]
           after == compilers'[Len(compilers)]
       IN  /\ after.scopeDepth = Len(c.marks) - 1
           /\ Len(after.locals) = Len(mark)
           /\ \A i \in DOMAIN after.locals \cap DOMAIN mark :
                /\ after.locals[i].name = mark[i].name
                /\ after.locals[i].depth = mark[i].depth
  ]_vars

-----------------------------------------------------------------------------
(* Termination *)

\* The step is the return of expression() to argumentList().
ArgumentParsed ==
  /\ Running("parsePrecendence", 1)
  /\ frames' = Below
  /\ Below # <<>>
  /\ Below[Len(Below)].fn = "argumentList"

\* An iteration of the declaration loop of compile() or block(), of the
\* method loop of classDeclaration() or of the skip loop of synchronize()
\* moves the parser on in the source.
LoopsConsume ==
  /\ Running("declaration", 1) => Pos' > Top.from
  /\ Running("method", 1) => Pos' > Top.from
  /\ (Running("declaration", 1) /\ parser.panicMode) =>
       \/ Pos' > Pos
       \/ parser' = [parser EXCEPT !.panicMode = FALSE]

\* Every started compilation returns.
Terminates == (frames # <<>>) ~> result.returned

\* C19 as stated: compile() terminates, and every iteration of the loops -
\* the comma loops of argumentList() and function() too - consumes at least
\* one token.
C19_EveryIterationConsumes ==
  /\ [][/\ LoopsConsume
        /\ ArgumentParsed => Pos' > Top.from
        /\ Running("function", 2) => Pos' > Pos]_vars
  /\ Terminates

\* C19: compile() terminates on every source.  Every iteration of the
\* declaration loops, of the method loop and of the skip loop consumes at
\* least one token.  A turn of a comma loop consumes one too, except a turn
\* that ends the loop: the turn of argumentList() at EOF, and the turn of
\* function() on a token that is neither an identifier nor a comma.
C19_Terminates ==
  /\ [][/\ LoopsConsume
        /\ ArgumentParsed =>
             \/ Pos' > Top.from
             \/ parser'.current.type = "EOF"
        /\ (Running("argumentList", 1) /\ check(World, "EOF")) =>
             Len(frames') < Len(frames)
        /\ Running("function", 2) =>
             \/ Pos' > Pos
             \/ /\ ~check(World, "IDENTIFIER")
                /\ ~check(World, "COMMA")
                /\ frames'[Len(frames')].pc = 3]_vars
  /\ Terminates

\* The compilation of `fun f ( 1 ) { }` has returned: it reported an error,
\* read the source to its end and gave NULL.
C19_Witness ==
  /\ result.returned
  /\ result.value = <<>>
  /\ source = <<"fun", "f", "(", "1", ")", "{", "}">>
  /\ scanPos = Len(source) + 1
  /\ parser.current.type = "EOF"
  /\ stderr # <<>>

====
